---------------------------- MODULE Spec2Model ----------------------------
(***************************************************************************)
(* Round engine of the reel-slot game: SlotScene (requestSpin /            *)
(* startSpinFlow), StateMachine, spinGrid, evaluateGrid and the bonus      *)
(* accountant.                                                             *)
(*                                                                         *)
(* Conventions.                                                            *)
(*  - A grid is a sequence of reels, a reel a sequence of rows.  TLA+      *)
(*    sequences start at 1, the code's arrays at 0: cell grid[r][y] of the *)
(*    code is grid[r+1][y+1] here; reel and row NUMBERS stored in records  *)
(*    (paylines, positions) keep the code's 0-based values.                *)
(*  - null / undefined arrays (prevGrid, heldReels, freezeReels) are the   *)
(*    empty sequence Null; a real grid or mask always has Reels entries.   *)
(*  - freeSpinsWinMult is a rational <<numerator, denominator>>.           *)
(***************************************************************************)
EXTENDS Integers, Sequences, FiniteSets, TLC

\* ------------------------------------------------------------------ bounds
MaxSpins  == 3      \* rounds accepted in one behaviour
MaxTopUps == 1      \* presses of the "add credits" button
MaxRespins == 1     \* calls requestSpin(true) accepted in one behaviour
MaxHooks  == 5      \* StateMachine-only specification: hook calls logged
MaxSeeds  == 8      \* two-session specification: rng states started from
MaxReelSpins == 2   \* one-reel specification: calls of spinTo

\* --------------------------------------------------------------- constants
Reels == 5
Rows  == 3
InitialBalance == 1000
InitialBet     == 10
CreditAmount   == 1000
BetDelta       == 10
BaseSteps      == 24
StepStagger    == 6
ReelBuffer     == 2
ForcedGuard    == 200
LimitGuard     == 300

Null == << >>

SlotStates == {"IDLE", "SPINNING", "RESULT", "BONUS", "WIN_PRESENTATION"}

DefaultSymbolIds ==
  << "A", "K", "Q", "J", "T", "CROWN", "SKULL", "PARROT", "CANNON",
     "CHEST_GOLD", "COMPASS", "WILD", "SCATTER" >>

PayCounts == {3, 4, 5}

PAYLINES_5X3 ==
  << [id |-> 1, rows |-> <<1, 1, 1, 1, 1>>],
     [id |-> 2, rows |-> <<0, 0, 0, 0, 0>>],
     [id |-> 3, rows |-> <<2, 2, 2, 2, 2>>],
     [id |-> 4, rows |-> <<0, 1, 2, 1, 0>>],
     [id |-> 5, rows |-> <<2, 1, 0, 1, 2>>],
     [id |-> 6, rows |-> <<0, 0, 1, 0, 0>>],
     [id |-> 7, rows |-> <<2, 2, 1, 2, 2>>] >>

\* ------------------------------------------------------------ math spec
DefaultPaytable ==
  [ A          |-> [c \in PayCounts |-> CASE c = 3 -> 1 [] c = 4 -> 3  [] c = 5 -> 8],
    K          |-> [c \in PayCounts |-> CASE c = 3 -> 1 [] c = 4 -> 3  [] c = 5 -> 8],
    Q          |-> [c \in PayCounts |-> CASE c = 3 -> 1 [] c = 4 -> 4  [] c = 5 -> 10],
    J          |-> [c \in PayCounts |-> CASE c = 3 -> 1 [] c = 4 -> 4  [] c = 5 -> 10],
    T          |-> [c \in PayCounts |-> CASE c = 3 -> 2 [] c = 4 -> 6  [] c = 5 -> 15],
    CROWN      |-> [c \in PayCounts |-> CASE c = 3 -> 2 [] c = 4 -> 6  [] c = 5 -> 16],
    SKULL      |-> [c \in PayCounts |-> CASE c = 3 -> 3 [] c = 4 -> 10 [] c = 5 -> 25],
    PARROT     |-> [c \in PayCounts |-> CASE c = 3 -> 3 [] c = 4 -> 10 [] c = 5 -> 25],
    CANNON     |-> [c \in PayCounts |-> CASE c = 3 -> 4 [] c = 4 -> 12 [] c = 5 -> 30],
    CHEST_GOLD |-> [c \in PayCounts |-> CASE c = 3 -> 5 [] c = 4 -> 15 [] c = 5 -> 40],
    COMPASS    |-> [c \in PayCounts |-> CASE c = 3 -> 4 [] c = 4 -> 12 [] c = 5 -> 30],
    WILD       |-> [c \in PayCounts |-> CASE c = 3 -> 5 [] c = 4 -> 20 [] c = 5 -> 100] ]

DefaultScatterPay ==
  [c \in PayCounts |-> CASE c = 3 -> 2 [] c = 4 -> 10 [] c = 5 -> 50]

DefaultWeights ==
  [ A |-> 18, K |-> 18, Q |-> 16, J |-> 16, T |-> 16, CROWN |-> 8, SKULL |-> 6,
    PARROT |-> 6, CANNON |-> 5, CHEST_GOLD |-> 4, COMPASS |-> 5,
    SCATTER |-> 3, WILD |-> 2 ]

\* loadEnvMathSpec() with an empty environment: every default of the resolver.
\* hitRate and bonusTargetFrequency are rationals <<numerator, denominator>>;
\* qaForceSymbol is "" when no symbol is forced.
DefaultMath ==
  [ reels |-> Reels, rows |-> Rows,
    betMin |-> 10, betMax |-> 1000, betStep |-> 10,
    wildSubstitutes |-> TRUE, wildPaysItself |-> FALSE,
    scatterSymbol |-> "SCATTER",
    bonusEnabled |-> TRUE, bonusTriggerCount |-> 3,
    scatterPays |-> FALSE, scatterPay |-> DefaultScatterPay,
    paytable |-> DefaultPaytable,
    freeSpinsAward |-> 5, freeSpinsWinMult |-> <<1, 1>>,
    freeSpinsRetriggerEnabled |-> TRUE,
    freeSpinsRetriggerCount |-> 3, freeSpinsRetriggerAward |-> 3,
    hitRate |-> <<32, 100>>, bonusTargetFrequency |-> <<2, 100>>,
    symbols |-> DefaultSymbolIds, weights |-> DefaultWeights,
    qaForceBonus |-> FALSE, qaForceWin |-> FALSE, qaForceSymbol |-> "" ]

\* The environments the session is started with (BET_MIN, BET_MAX,
\* FREESPINS_AWARD, FREESPINS_WIN_MULT, FREESPINS_RETRIGGER_AWARD set; every
\* other key absent).  High bets and short free-spin sequences keep a whole
\* session (bonus, retrigger, an empty balance) within MaxSpins rounds.
MathChoices ==
  { [DefaultMath EXCEPT !.betMin = 490, !.betMax = 500,
                        !.freeSpinsAward = 2, !.freeSpinsWinMult = <<3, 2>>,
                        !.freeSpinsRetriggerAward = 1] }

\* ------------------------------------------------------------ evaluator
\* the one element of a singleton set; { e(x) : x \in {x0} } works e out with
\* x0 worked out once
Only(set) == CHOOSE v \in set : TRUE

\* Math.round on the rational n/d (d > 0): nearest integer, halves up.
MathRound(n, d) == (2 * n + d) \div (2 * d)

Min(a, b) == IF a < b THEN a ELSE b
Max(a, b) == IF a > b THEN a ELSE b

RECURSIVE SumSeq(_)
SumSeq(s0) ==
  Only({
    IF s = << >> THEN 0 ELSE Head(s) + SumSeq(Tail(s))
    : s \in {s0} })

RECURSIVE FlattenSeq(_)
FlattenSeq(ss0) ==
  Only({
    IF ss = << >> THEN << >> ELSE Head(ss) \o FlattenSeq(Tail(ss))
    : ss \in {ss0} })

\* ScatterPositions that counts the literal SCATTER, not math.scatterSymbol.
ScatterPositions_literal(grid, math) ==
  FlattenSeq([r \in 1..Len(grid) |->
    FlattenSeq([y \in 1..Len(grid[r]) |->
      IF grid[r][y] = "SCATTER"
        THEN << [reel |-> r - 1, row |-> y - 1] >> ELSE << >>])])

\* evaluators.ts 38-47: scatter cells, reel-major order.
ScatterPositions(grid, math) ==
  FlattenSeq([r \in 1..Len(grid) |->
    FlattenSeq([y \in 1..Len(grid[r]) |->
      IF grid[r][y] = math.scatterSymbol
        THEN << [reel |-> r - 1, row |-> y - 1] >> ELSE << >>])])

\* evaluators.ts 57-58
LineSymbols(grid, path) == [r \in 1..Len(grid) |-> grid[r][path[r] + 1]]

\* FindBase that steps over a SCATTER instead of stopping at it.
RECURSIVE FindBase_pastScatter(_, _)
FindBase_pastScatter(symbols, r) ==
  IF r > Len(symbols) THEN "WILD"
  ELSE IF symbols[r] \in {"WILD", "SCATTER"}
         THEN FindBase_pastScatter(symbols, r + 1)
  ELSE symbols[r]

\* evaluators.ts 67-77: the base of a line, scanning from index r (1-based).
RECURSIVE FindBase(_, _)
FindBase(symbols, r) ==
  IF r > Len(symbols) THEN "WILD"
  ELSE IF symbols[r] = "SCATTER" THEN "WILD"
  ELSE IF symbols[r] # "WILD" THEN symbols[r]
  ELSE FindBase(symbols, r + 1)

BaseSymbol(symbols) ==
  IF symbols[1] = "WILD" THEN FindBase(symbols, 2) ELSE symbols[1]

NoRun == [count |-> 0, usedWild |-> FALSE, positions |-> << >>]

\* evaluators.ts 89-103: the symbol at index r counts; rest is the run
\* that follows it.
ExtendRun(s, r, path, rest0) ==
  Only({
      [count     |-> rest.count + 1,
       usedWild  |-> (s = "WILD") \/ rest.usedWild,
       positions |-> << [reel |-> r - 1, row |-> path[r]] >> \o rest.positions]
    : rest \in {rest0} })

\* MatchRun that steps over a cell that does not match instead of stopping.
RECURSIVE MatchRun_skipMismatch(_, _, _, _, _)
MatchRun_skipMismatch(symbols, path, base, math, r) ==
  IF r > Len(symbols) THEN NoRun
  ELSE IF symbols[r] = "SCATTER" THEN NoRun
  ELSE IF \/ symbols[r] = base
          \/ math.wildSubstitutes /\ symbols[r] = "WILD" /\ base # "WILD"
    THEN ExtendRun(symbols[r], r, path,
                   MatchRun_skipMismatch(symbols, path, base, math, r + 1))
    ELSE MatchRun_skipMismatch(symbols, path, base, math, r + 1)

\* evaluators.ts 81-106: the match loop from index r (1-based).
RECURSIVE MatchRun(_, _, _, _, _)
MatchRun(symbols0, path, base, math, r) ==
  Only({
      IF r > Len(symbols) THEN NoRun
      ELSE IF symbols[r] = "SCATTER" THEN NoRun
      ELSE IF \/ symbols[r] = base
              \/ math.wildSubstitutes /\ symbols[r] = "WILD" /\ base # "WILD"
        THEN ExtendRun(symbols[r], r, path,
                       MatchRun(symbols, path, base, math, r + 1))
        ELSE NoRun
    : symbols \in {symbols0} })

\* paytable?.[baseSym]?.[c] ?? 0
PayMult(math, baseSym, c) ==
  IF baseSym \in DOMAIN math.paytable /\ c \in DOMAIN math.paytable[baseSym]
    THEN math.paytable[baseSym][c] ELSE 0

\* LineWin that records a line whatever its amount.
LineWin_zeroToo(line, base, run, c, amount) ==
  << [lineId |-> line.id, pathRows |-> line.rows, fromReel |-> 0,
      toReel |-> run.count - 1, symbol |-> base, count |-> c,
      usedWild |-> run.usedWild, amount |-> amount,
      positions |-> run.positions] >>

\* evaluators.ts 112-126: the win line pushed when the amount is positive.
LineWin(line, base, run, c, amount) ==
  IF amount > 0
    THEN << [lineId |-> line.id, pathRows |-> line.rows, fromReel |-> 0,
             toReel |-> run.count - 1, symbol |-> base, count |-> c,
             usedWild |-> run.usedWild, amount |-> amount,
             positions |-> run.positions] >>
    ELSE << >>

\* evaluators.ts 108-127: a run of three or more pays by the paytable.
EvalRun(line, base, run0, bet, math) ==
  Only({
      IF run.count >= 3
        THEN LineWin(line, base, run, Min(5, run.count),
                     bet * PayMult(math, base, Min(5, run.count)))
        ELSE << >>
    : run \in {run0} })

\* evaluators.ts 78-106: the line is skipped when only WILDs lead and WILD
\* does not pay itself; otherwise the run is counted.
EvalBase(line, symbols, base0, bet, math) ==
  Only({
      IF symbols[1] = "WILD" /\ base = "WILD" /\ ~math.wildPaysItself THEN << >>
      ELSE EvalRun(line, base, MatchRun(symbols, line.rows, base, math, 1),
                   bet, math)
    : base \in {base0} })

\* evaluators.ts 64-79: a line that starts with SCATTER is skipped.
EvalSymbols(line, symbols0, bet, math) ==
  Only({
      IF symbols[1] = "SCATTER" THEN << >>
      ELSE EvalBase(line, symbols, BaseSymbol(symbols), bet, math)
    : symbols \in {symbols0} })

\* evaluators.ts 53-128, one payline: the win lines (none or one) it pushes.
EvalLine(grid, line, bet, math) ==
  EvalSymbols(line, LineSymbols(grid, line.rows), bet, math)

\* HeldReelsNext that looks at the top row only.
HeldReelsNext_topRow(grid) ==
  [r \in 1..Len(grid) |-> grid[r][1] = "WILD"]

\* evaluators.ts 139-148
HeldReelsNext(grid) ==
  [r \in 1..Len(grid) |-> \E y \in 1..Len(grid[r]) : grid[r][y] = "WILD"]

\* evaluators.ts 130-135
ScatterWin(bet, math, scatterCount) ==
  IF math.scatterPays /\ scatterCount >= 3
    THEN bet * (IF Min(5, scatterCount) \in DOMAIN math.scatterPay
                  THEN math.scatterPay[Min(5, scatterCount)] ELSE 0)
    ELSE 0

\* evaluators.ts 137: the multiplier of the total, as a fraction
WinMult(math, inFreeSpins) ==
  IF inFreeSpins THEN math.freeSpinsWinMult ELSE << 1, 1 >>

\* evaluators.ts 137-158: the total and the returned record
EvalResult(grid, winLines, scatterPositions0, lineSum, scatterWinAmount, mult) ==
  Only({
      [ winAmount        |-> MathRound((lineSum + scatterWinAmount) * mult[1], mult[2]),
        winLines         |-> winLines,
        scatterCount     |-> Len(scatterPositions),
        scatterWinAmount |-> scatterWinAmount,
        scatterPositions |-> scatterPositions,
        heldReelsNext    |-> HeldReelsNext(grid) ]
    : scatterPositions \in {scatterPositions0} })

\* a variant that rounds every line amount and the scatter win on its own
EvalTotals_perLine(grid, bet, math, inFreeSpins, winLines0, scatterPositions) ==
  Only({
      EvalResult(grid, winLines, scatterPositions,
                 SumSeq([i \in 1..Len(winLines) |->
                           MathRound(winLines[i].amount * WinMult(math, inFreeSpins)[1],
                                     WinMult(math, inFreeSpins)[2])]),
                 MathRound(ScatterWin(bet, math, Len(scatterPositions))
                             * WinMult(math, inFreeSpins)[1],
                           WinMult(math, inFreeSpins)[2]),
                 <<1, 1>>)
    : winLines \in {winLines0} })

\* evaluators.ts 49-137: the sums over the win lines and the scatter cells
EvalTotals(grid, bet, math, inFreeSpins, winLines0, scatterPositions) ==
  Only({
      EvalResult(grid, winLines, scatterPositions,
                 SumSeq([i \in 1..Len(winLines) |-> winLines[i].amount]),
                 ScatterWin(bet, math, Len(scatterPositions)),
                 WinMult(math, inFreeSpins))
    : winLines \in {winLines0} })

\* evaluators.ts 26-158
evaluateGrid(grid, bet, math, inFreeSpins) ==
  EvalTotals(grid, bet, math, inFreeSpins,
             FlattenSeq([li \in 1..Len(PAYLINES_5X3) |->
                           EvalLine(grid, PAYLINES_5X3[li], bet, math)]),
             ScatterPositions(grid, math))

\* ------------------------------------------------------------- resolver
\* A value of the environment is a string, kept as the sequence of its
\* characters, or is missing: Undefined.  A number the resolver produces is
\* a rational <<numerator, denominator>> with a positive denominator.
Undefined == << "undefined" >>

DigitChars == << "0", "1", "2", "3", "4", "5", "6", "7", "8", "9" >>
IsDigit(c) == \E i \in 1..Len(DigitChars) : DigitChars[i] = c
DigitValue(c) == (CHOOSE i \in 1..Len(DigitChars) : DigitChars[i] = c) - 1

LowerChars ==
  << "a", "b", "c", "d", "e", "f", "g", "h", "i", "j", "k", "l", "m",
     "n", "o", "p", "q", "r", "s", "t", "u", "v", "w", "x", "y", "z" >>
UpperChars ==
  << "A", "B", "C", "D", "E", "F", "G", "H", "I", "J", "K", "L", "M",
     "N", "O", "P", "Q", "R", "S", "T", "U", "V", "W", "X", "Y", "Z" >>

\* String.prototype.toUpperCase / toLowerCase on one character
UpperChar(c) ==
  IF \E i \in 1..Len(LowerChars) : LowerChars[i] = c
    THEN UpperChars[CHOOSE i \in 1..Len(LowerChars) : LowerChars[i] = c]
    ELSE c
LowerChar(c) ==
  IF \E i \in 1..Len(UpperChars) : UpperChars[i] = c
    THEN LowerChars[CHOOSE i \in 1..Len(UpperChars) : UpperChars[i] = c]
    ELSE c

\* the string of a sequence of characters, in upper / lower case
RECURSIVE UpperString(_)
UpperString(s) ==
  IF s = << >> THEN "" ELSE UpperChar(Head(s)) \o UpperString(Tail(s))
RECURSIVE LowerString(_)
LowerString(s) ==
  IF s = << >> THEN "" ELSE LowerChar(Head(s)) \o LowerString(Tail(s))

\* String.prototype.trim
RECURSIVE TrimLeft(_)
TrimLeft(s) == IF s # << >> /\ Head(s) = " " THEN TrimLeft(Tail(s)) ELSE s
RECURSIVE TrimRight(_)
TrimRight(s) ==
  IF s # << >> /\ s[Len(s)] = " " THEN TrimRight(SubSeq(s, 1, Len(s) - 1)) ELSE s
Trim(s) == TrimRight(TrimLeft(s))

\* part_001 53: where the leftmost match of /-?\d+(\.\d+)?/ starts, from
\* index i on (0: no match)
RECURSIVE MatchStart(_, _)
MatchStart(s, i) ==
  IF i > Len(s) THEN 0
  ELSE IF IsDigit(s[i]) THEN i
  ELSE IF s[i] = "-" /\ i < Len(s) /\ IsDigit(s[i + 1]) THEN i
  ELSE MatchStart(s, i + 1)

\* the index after the run of digits that starts at i
RECURSIVE DigitsEnd(_, _)
DigitsEnd(s, i) ==
  IF i <= Len(s) /\ IsDigit(s[i]) THEN DigitsEnd(s, i + 1) ELSE i

\* the number written by the digits s[i] .. s[j - 1], after acc
RECURSIVE DigitsValue(_, _, _, _)
DigitsValue(s, i, j, acc) ==
  IF i >= j THEN acc ELSE DigitsValue(s, i + 1, j, acc * 10 + DigitValue(s[i]))

RECURSIVE PowerOfTen(_)
PowerOfTen(k) == IF k = 0 THEN 1 ELSE 10 * PowerOfTen(k - 1)

\* the (\.\d+)? part: a point at i followed by a digit
HasFraction(s, i) == i < Len(s) /\ s[i] = "." /\ IsDigit(s[i + 1])

\* part_001 55: Number(m[0]) for the unsigned match that starts at i and
\* whose whole part ends before j
Unsigned(s, i, j) ==
  IF HasFraction(s, j)
    THEN << DigitsValue(s, j + 1, DigitsEnd(s, j + 1), DigitsValue(s, i, j, 0)),
            PowerOfTen(DigitsEnd(s, j + 1) - (j + 1)) >>
    ELSE << DigitsValue(s, i, j, 0), 1 >>

Negated(q) == << 0 - q[1], q[2] >>

\* Number(m[0]) for the match that starts at i
Matched(s, i) ==
  IF s[i] = "-" THEN Negated(Unsigned(s, i + 1, DigitsEnd(s, i + 1)))
  ELSE Unsigned(s, i, DigitsEnd(s, i))

\* num applied to a trimmed string
NumOfTrimmed(s, def) ==
  IF s = << >> THEN def
  ELSE IF MatchStart(s, 1) = 0 THEN def
  ELSE Matched(s, MatchStart(s, 1))

\* part_001 45-57 (a value of the environment is never a number)
num(v, def) == IF v = Undefined THEN def ELSE NumOfTrimmed(Trim(v), def)

\* part_001 59-64
bool(v, def) ==
  IF v = Undefined \/ v = << >> THEN def
  ELSE LowerString(Trim(v)) \in {"1", "true", "yes", "on"}

\* part_001 77-96 on the upper-cased id; "" stands for null
MapUpper(u) ==
  IF u \in {"T", "A", "K", "Q", "J", "SCATTER", "WILD", "CROWN", "SKULL",
            "PARROT", "CANNON", "CHEST_GOLD", "COMPASS"} THEN u
  ELSE IF u = "STAR" THEN "SCATTER"
  ELSE IF u = "10" THEN "T"
  ELSE ""

\* part_001 77-96
mapEnvSymbol(id) == MapUpper(UpperString(id))

\* String.prototype.split(','): the pieces of s, cur being the piece read
RECURSIVE SplitCommas(_, _)
SplitCommas(s, cur) ==
  IF s = << >> THEN << cur >>
  ELSE IF Head(s) = "," THEN << cur >> \o SplitCommas(Tail(s), << >>)
  ELSE SplitCommas(Tail(s), Append(cur, Head(s)))

\* part_001 69-73: trim, drop the empty pieces, map, drop the unknown ids
RECURSIVE MapPieces(_)
MapPieces(pieces) ==
  IF pieces = << >> THEN << >>
  ELSE IF Trim(Head(pieces)) = << >> \/ mapEnvSymbol(Trim(Head(pieces))) = ""
    THEN MapPieces(Tail(pieces))
    ELSE << mapEnvSymbol(Trim(Head(pieces))) >> \o MapPieces(Tail(pieces))

\* part_001 66-75
symList(v, fallback) ==
  IF v = Undefined \/ v = << >> THEN fallback
  ELSE MapPieces(SplitCommas(v, << >>))

\* e.KEY: the value of a key, Undefined when the environment has none
Env(e, key) == IF key \in DOMAIN e THEN e[key] ELSE Undefined

\* a ?? b
Coalesce(a, b) == IF a = Undefined THEN b ELSE a

\* the whole number n as a number of the resolver
Whole(n) == << n, 1 >>

PayCountChar(c) == CASE c = 3 -> "3" [] c = 4 -> "4" [] c = 5 -> "5"

\* part_001 150-160 and 185-192: the entry of a pay key, its default when
\* the key is missing or empty
PayEntry(v, def) == IF v # Undefined /\ v # << >> THEN num(v, Whole(0)) ELSE Whole(def)

\* part_001 117-132
EnvWeights(e) ==
  [ A |-> num(Env(e, "W_A"), Whole(18)), K |-> num(Env(e, "W_K"), Whole(18)),
    Q |-> num(Env(e, "W_Q"), Whole(16)), J |-> num(Env(e, "W_J"), Whole(16)),
    T |-> num(Env(e, "W_T"), Whole(16)),
    CROWN |-> num(Env(e, "W_CROWN"), Whole(8)),
    SKULL |-> num(Env(e, "W_SKULL"), Whole(6)),
    PARROT |-> num(Env(e, "W_PARROT"), Whole(6)),
    CANNON |-> num(Env(e, "W_CANNON"), Whole(5)),
    CHEST_GOLD |-> num(Env(e, "W_CHEST_GOLD"), Whole(4)),
    COMPASS |-> num(Env(e, "W_COMPASS"), Whole(5)),
    SCATTER |-> num(Coalesce(Env(e, "W_SCATTER"), Env(e, "W_STAR")), Whole(3)),
    WILD |-> num(Env(e, "W_WILD"), Whole(2)) ]

\* part_001 134-192: the paytable of the symbols other than SCATTER
EnvPaytable(e) ==
  [s \in DOMAIN DefaultPaytable |->
     [c \in PayCounts |->
        PayEntry(Env(e, "PAY_" \o s \o "_" \o PayCountChar(c)),
                 DefaultPaytable[s][c])]]

\* part_001 162-168 and 194-197
EnvScatterPay(e) ==
  [c \in PayCounts |->
     PayEntry(Coalesce(Env(e, "PAY_SCATTER_" \o PayCountChar(c)),
                       Env(e, "PAY_STAR_" \o PayCountChar(c))),
              DefaultScatterPay[c])]

\* part_001 216 and 235: mapEnvSymbol(e.KEY ?? def) ?? orElse
EnvSymbol(v, def, orElse) ==
  IF mapEnvSymbol(Coalesce(v, def)) = "" THEN orElse
  ELSE mapEnvSymbol(Coalesce(v, def))

\* part_001 98-238
loadEnvMathSpec(e) ==
  [ reels |-> num(Env(e, "REELS"), Whole(5)),
    rows |-> num(Env(e, "ROWS"), Whole(3)),
    betMin |-> num(Env(e, "BET_MIN"), Whole(10)),
    betMax |-> num(Env(e, "BET_MAX"), Whole(1000)),
    betStep |-> num(Env(e, "BET_STEP"), Whole(10)),
    hitRate |-> num(Env(e, "MATH_TARGET_HIT_RATE"), <<32, 100>>),
    bonusTargetFrequency |-> num(Env(e, "BONUS_TARGET_FREQUENCY"), <<2, 100>>),
    symbols |-> symList(Env(e, "SYMBOLS"), DefaultSymbolIds),
    weights |-> EnvWeights(e),
    wildSubstitutes |-> bool(Env(e, "WILD_SUBSTITUTES"), TRUE),
    wildPaysItself |-> bool(Env(e, "WILD_PAYS_ITSELF"), FALSE),
    scatterSymbol |->
      EnvSymbol(Env(e, "BONUS_SCATTER_SYMBOL"),
                <<"S", "C", "A", "T", "T", "E", "R">>, "SCATTER"),
    bonusEnabled |-> bool(Env(e, "BONUS_ENABLED"), TRUE),
    bonusTriggerCount |-> num(Env(e, "BONUS_TRIGGER_COUNT"), Whole(3)),
    scatterPays |-> bool(Env(e, "SCATTER_PAYS"), FALSE),
    scatterPay |-> EnvScatterPay(e),
    paytable |-> EnvPaytable(e),
    freeSpinsAward |-> num(Env(e, "FREESPINS_AWARD"), Whole(5)),
    freeSpinsWinMult |-> num(Env(e, "FREESPINS_WIN_MULT"), Whole(1)),
    freeSpinsRetriggerEnabled |-> bool(Env(e, "FREESPINS_RETRIGGER_ENABLED"), TRUE),
    freeSpinsRetriggerCount |-> num(Env(e, "FREESPINS_RETRIGGER_COUNT"), Whole(3)),
    freeSpinsRetriggerAward |-> num(Env(e, "FREESPINS_RETRIGGER_AWARD"), Whole(3)),
    bigWinThresholdXBet |-> num(Env(e, "BIG_WIN_THRESHOLD_XBET"), Whole(10)),
    rngSeed |-> num(Env(e, "RNG_SEED"), Whole(0)),
    qaForceBonus |-> bool(Env(e, "QA_FORCE_BONUS"), FALSE),
    qaForceWin |-> bool(Env(e, "QA_FORCE_WIN"), FALSE),
    qaForceSymbol |-> EnvSymbol(Env(e, "QA_FORCE_SYMBOL"), << >>, ""),
    qaLog |-> bool(Env(e, "QA_LOG"), FALSE) ]

\* ------------------------------------------------------------ generator
\* The rng argument of generateSpin: a generator whose state is a number
\* below RngModulus; a call returns state / RngModulus, a value of [0, 1),
\* and moves the state on.
RngModulus == 256

RngNext(x) == (x * 137 + 187) % RngModulus

\* the state after k calls
RECURSIVE RngSkip(_, _)
RngSkip(x0, k) ==
  Only({
    IF k = 0 THEN x
    ELSE IF k = 1 THEN RngNext(x)
    ELSE RngSkip(RngSkip(x, k \div 2), k - k \div 2)
    : x \in {x0} })

\* (rng() * n) | 0 for the call made in state x
Scaled(x, n) == (x * n) \div RngModulus

\* rng() < rate for the call made in state x
DrawBelow(x, rate) == x * rate[2] < rate[1] * RngModulus

\* part_001 296-297: the sum of the weights over the declared symbols
RECURSIVE TotalWeight(_, _)
TotalWeight(math, i) ==
  IF i > Len(math.symbols) THEN 0
  ELSE math.weights[math.symbols[i]] + TotalWeight(math, i + 1)

\* part_001 298-304: the roulette loop from symbol i on; roll is kept
\* multiplied by RngModulus
RECURSIVE PickLoop(_, _, _)
PickLoop(roll0, i, math) ==
  Only({
      IF i > Len(math.symbols) THEN "A"
      ELSE IF roll - RngModulus * math.weights[math.symbols[i]] <= 0
        THEN math.symbols[i]
        ELSE PickLoop(roll - RngModulus * math.weights[math.symbols[i]], i + 1, math)
    : roll \in {roll0} })

\* part_001 292-305: the symbol drawn by the call made in state x
pickWeightedSymbol(x, math) == PickLoop(x * TotalWeight(math, 1), 1, math)

\* part_001 286: a column of rows cells, one call per cell
RECURSIVE DrawColumn(_, _, _)
DrawColumn(x0, math, rows) ==
  Only({
      IF rows = 0 THEN << >>
      ELSE << pickWeightedSymbol(x, math) >> \o DrawColumn(RngNext(x), math, rows - 1)
    : x \in {x0} })

\* part_001 284-289: reels columns, one after the other
RECURSIVE DrawReels(_, _, _, _)
DrawReels(x0, math, reels, rows) ==
  Only({
      IF reels = 0 THEN << >>
      ELSE << DrawColumn(x, math, rows) >>
             \o DrawReels(RngSkip(x, rows), math, reels - 1, rows)
    : x \in {x0} })

\* part_001 282-290
createWeightedGrid(x0, math, reels, rows) ==
  Only({
      [ grid |-> DrawReels(x, math, reels, rows), rng |-> RngSkip(x, reels * rows) ]
    : x \in {x0} })

\* part_001 307-319
pickMatchCount(x) ==
  IF x * 100 - 82 * RngModulus <= 0 THEN 3
  ELSE IF x * 100 - 82 * RngModulus - 16 * RngModulus <= 0 THEN 4
  ELSE 5

\* part_001 329-336: the symbol of the forced line, from try number tries on
RECURSIVE PickLineSymbol(_, _, _)
PickLineSymbol(x0, math, tries) ==
  Only({
      IF tries >= 10 THEN [sym |-> "A", rng |-> x]
      ELSE IF /\ pickWeightedSymbol(x, math) # math.scatterSymbol
              /\ pickWeightedSymbol(x, math) # "WILD"
        THEN [sym |-> pickWeightedSymbol(x, math), rng |-> RngNext(x)]
        ELSE PickLineSymbol(RngNext(x), math, tries + 1)
    : x \in {x0} })

\* a cell of the grid overwritten (reel r, row y: 0-based)
SetCell(grid0, r, y, sym) ==
  Only({
      [grid EXCEPT ![r + 1] = [grid[r + 1] EXCEPT ![y + 1] = sym]]
    : grid \in {grid0} })

\* part_001 339: sym written at the row on the reels below maxCount
RECURSIVE WriteLine(_, _, _, _)
WriteLine(grid, row, maxCount, sym) ==
  IF maxCount = 0 THEN grid
  ELSE WriteLine(SetCell(grid, maxCount - 1, row, sym), row, maxCount - 1, sym)

\* the line once its symbol is drawn
LineWritten(grid, row, count, picked0) ==
  Only({
      [grid |-> WriteLine(grid, row, Min(Len(grid), count), picked.sym),
       rng |-> picked.rng]
    : picked \in {picked0} })

\* part_001 321-346
applyForcedWinLine(G0, math) ==
  Only({
      LineWritten(G.grid,
                  Scaled(G.rng, Len(G.grid[1])),
                  pickMatchCount(RngNext(G.rng)),
                  PickLineSymbol(RngNext(RngNext(G.rng)), math, 0))
    : G \in {G0} })

\* part_001 375-379: try number i on
RECURSIVE PickDifferent(_, _, _, _)
PickDifferent(x0, math, notThis, i) ==
  Only({
      IF i >= 20 THEN [sym |-> IF notThis = "A" THEN "K" ELSE "A", rng |-> x]
      ELSE IF /\ pickWeightedSymbol(x, math) # math.scatterSymbol
              /\ pickWeightedSymbol(x, math) # notThis
        THEN [sym |-> pickWeightedSymbol(x, math), rng |-> RngNext(x)]
        ELSE PickDifferent(RngNext(x), math, notThis, i + 1)
    : x \in {x0} })

pickDifferentNonScatter(x, math, notThis) == PickDifferent(x, math, notThis, 0)

\* one cell overwritten with a drawn symbol
CellDrawn(grid, r, y, picked0) ==
  Only({
      [grid |-> SetCell(grid, r, y, picked.sym), rng |-> picked.rng]
    : picked \in {picked0} })

\* part_001 356-360: the length of the run of first from reel r (1-based) on
RECURSIVE RunFrom(_, _, _, _)
RunFrom(grid, row, first, r) ==
  IF r > Len(grid) \/ grid[r][row + 1] # first THEN 0
  ELSE 1 + RunFrom(grid, row, first, r + 1)

\* part_001 352-366: the rows from row on
RECURSIVE BreakRows(_, _, _)
BreakRows(G0, math, row) ==
  Only({
      IF row >= Len(G.grid[1]) THEN G
      ELSE IF G.grid[1][row + 1] = math.scatterSymbol THEN BreakRows(G, math, row + 1)
      ELSE IF 1 + RunFrom(G.grid, row, G.grid[1][row + 1], 2) >= 3
        THEN BreakRows(CellDrawn(G.grid, 2, row,
                                 pickDifferentNonScatter(G.rng, math, G.grid[1][row + 1])),
                       math, row + 1)
        ELSE BreakRows(G, math, row + 1)
    : G \in {G0} })

\* part_001 348-366
breakAccidentalWins(G, math) == BreakRows(G, math, 0)

\* part_001 382-389
countScatter(grid, scatterSymbol) ==
  Cardinality({ c \in (1..Len(grid)) \X (1..Len(grid[1])) :
                  grid[c[1]][c[2]] = scatterSymbol })

\* a turn that counts the cell it draws whether or not it held a scatter
ForcedTurn_anyCell(G0, math, desired) ==
  Only({
    IF ~(G.c < desired) THEN G
    ELSE [grid |-> SetCell(G.grid, Scaled(G.rng, Len(G.grid)),
                           Scaled(RngNext(G.rng), Len(G.grid[1])),
                           math.scatterSymbol),
          rng |-> RngSkip(G.rng, 2), c |-> G.c + 1]
    : G \in {G0} })

\* part_001 398-405: one turn of the loop, G.c scatter cells counted so far;
\* a turn after the count is reached does nothing
ForcedTurn(G0, math, desired) ==
  Only({
    IF ~(G.c < desired) THEN G
    ELSE IF G.grid[Scaled(G.rng, Len(G.grid)) + 1]
                  [Scaled(RngNext(G.rng), Len(G.grid[1])) + 1] # math.scatterSymbol
      THEN [grid |-> SetCell(G.grid, Scaled(G.rng, Len(G.grid)),
                             Scaled(RngNext(G.rng), Len(G.grid[1])),
                             math.scatterSymbol),
            rng |-> RngSkip(G.rng, 2), c |-> G.c + 1]
      ELSE [grid |-> G.grid, rng |-> RngSkip(G.rng, 2), c |-> G.c]
    : G \in {G0} })

\* n turns in a row (the first half of them, then the rest)
RECURSIVE ForcedTurns(_, _, _, _)
ForcedTurns(G0, math, desired, n) ==
  Only({
    IF n = 0 \/ ~(G.c < desired) THEN G
    ELSE IF n = 1 THEN ForcedTurn(G, math, desired)
    ELSE ForcedTurns(ForcedTurns(G, math, desired, n \div 2),
                     math, desired, n - n \div 2)
    : G \in {G0} })

\* the loop left: on the count, or on the guard (exhausted)
LoopLeft(G0, stillRunning) ==
  Only({
      [grid |-> G.grid, rng |-> G.rng, exhausted |-> stillRunning]
    : G \in {G0} })

ForcedLeft(G0, desired) ==
  Only({
    LoopLeft(G, G.c < desired)
    : G \in {G0} })

\* part_001 391-406: the loop takes at most 200 turns
applyForcedScatter(G0, math, desired) ==
  Only({
      ForcedLeft(ForcedTurns([grid |-> G.grid, rng |-> G.rng,
                              c |-> countScatter(G.grid, math.scatterSymbol)],
                             math, desired, ForcedGuard),
                 desired)
    : G \in {G0} })

\* the scatter cell hit by a turn of the limiting loop, replaced
LimitHit(grid, r, y, picked0, c) ==
  Only({
      [grid |-> SetCell(grid, r, y, picked.sym), rng |-> picked.rng, c |-> c - 1]
    : picked \in {picked0} })

\* part_001 417-424: one turn of the loop; a turn after the count is below
\* the limit does nothing
LimitTurn(G0, math, limit) ==
  Only({
    IF ~(G.c >= limit) THEN G
    ELSE IF G.grid[Scaled(G.rng, Len(G.grid)) + 1]
                  [Scaled(RngNext(G.rng), Len(G.grid[1])) + 1] = math.scatterSymbol
      THEN LimitHit(G.grid, Scaled(G.rng, Len(G.grid)),
                    Scaled(RngNext(G.rng), Len(G.grid[1])),
                    pickDifferentNonScatter(RngSkip(G.rng, 2), math,
                                            math.scatterSymbol),
                    G.c)
      ELSE [grid |-> G.grid, rng |-> RngSkip(G.rng, 2), c |-> G.c]
    : G \in {G0} })

RECURSIVE LimitTurns(_, _, _, _)
LimitTurns(G0, math, limit, n) ==
  Only({
    IF n = 0 \/ ~(G.c >= limit) THEN G
    ELSE IF n = 1 THEN LimitTurn(G, math, limit)
    ELSE LimitTurns(LimitTurns(G, math, limit, n \div 2),
                    math, limit, n - n \div 2)
    : G \in {G0} })

LimitLeft(G0, limit) ==
  Only({
    LoopLeft(G, G.c >= limit)
    : G \in {G0} })

\* part_001 408-425: the loop takes at most 300 turns
limitScatterBelow(G0, math, limit) ==
  Only({
      LimitLeft(LimitTurns([grid |-> G.grid, rng |-> G.rng,
                            c |-> countScatter(G.grid, math.scatterSymbol)],
                           math, limit, LimitGuard),
                limit)
    : G \in {G0} })

\* part_001 270: every cell from cell k (reel by reel) on set to sym
RECURSIVE Overwrite(_, _, _)
Overwrite(grid0, sym, k) ==
  Only({
      IF k >= Len(grid) * Len(grid[1]) THEN grid
      ELSE Overwrite(SetCell(grid, k \div Len(grid[1]), k % Len(grid[1]), sym),
                     sym, k + 1)
    : grid \in {grid0} })

\* part_001 269-271: the override of every cell when a symbol is forced
qaOverride(G0, math) ==
  Only({
      IF math.qaForceSymbol # ""
        THEN [grid |-> Overwrite(G.grid, math.qaForceSymbol, 0), rng |-> G.rng]
        ELSE G
    : G \in {G0} })

\* part_001 273-274
winPass(G, math, forceWin) ==
  IF forceWin THEN applyForcedWinLine(G, math) ELSE breakAccidentalWins(G, math)

\* part_001 276-277
scatterPass(G, math, forceScatter) ==
  IF forceScatter THEN applyForcedScatter(G, math, math.bonusTriggerCount)
  ELSE limitScatterBelow(G, math, math.bonusTriggerCount)

\* part_001 263: the decision, and the state of rng after it (no call is
\* made when the QA flag already decides)
forceScatterOf(x, math) ==
  math.qaForceBonus \/ DrawBelow(x, math.bonusTargetFrequency)
afterScatterDraw(x, math) == IF math.qaForceBonus THEN x ELSE RngNext(x)

\* part_001 264
forceWinOf(x, math) == math.qaForceWin \/ DrawBelow(x, math.hitRate)
afterWinDraw(x, math) == IF math.qaForceWin THEN x ELSE RngNext(x)

\* what generateSpin returns, with the grid as each pass found it:
\* raw (as drawn), forced (after the QA override), lined (after the win
\* pass), and whether the scatter pass ran out of turns
Generated(forceScatter, forceWin, raw, forced, lined, last0) ==
  Only({
      [ grid |-> last.grid, forcedWin |-> forceWin, forcedScatter |-> forceScatter,
        rng |-> last.rng, raw |-> raw.grid, forced |-> forced.grid,
        lined |-> lined.grid, exhausted |-> last.exhausted ]
    : last \in {last0} })

GenLined(forceScatter, forceWin, raw, forced, lined0, math) ==
  Only({
      Generated(forceScatter, forceWin, raw, forced, lined,
                scatterPass(lined, math, forceScatter))
    : lined \in {lined0} })

GenForced(forceScatter, forceWin, raw, forced0, math) ==
  Only({
      GenLined(forceScatter, forceWin, raw, forced,
               winPass(forced, math, forceWin), math)
    : forced \in {forced0} })

GenRaw(forceScatter, forceWin, raw0, math) ==
  Only({
      GenForced(forceScatter, forceWin, raw, qaOverride(raw, math), math)
    : raw \in {raw0} })

\* part_001 253-280
generateSpin(x, math, reels, rows) ==
  GenRaw(forceScatterOf(x, math),
         forceWinOf(afterScatterDraw(x, math), math),
         createWeightedGrid(afterWinDraw(afterScatterDraw(x, math), math),
                            math, reels, rows),
         math)

\* --------------------------------------------- the scatter pass, by turns
\* The while loops of applyForcedScatter and limitScatterBelow one test of
\* the loop condition at a time.  L is the loop's state: the grid, the state
\* of rng, c, guard, and where control is (pc).
LoopAt(L, G0, pc) ==
  Only({
      [L EXCEPT !.grid = G.grid, !.rng = G.rng, !.c = G.c, !.pc = pc]
    : G \in {G0} })

\* the state at the entry of the scatter pass (part_001 276-277, 396-397,
\* 410-416): limitScatterBelow returns at once when c < limit
LoopEntered(x, forceScatter, lined, c, limit) ==
  [ op |-> "scatterPass", outcome |-> "none", forceFree |-> FALSE,
    next |-> "IDLE", seed |-> x, forcedScatter |-> forceScatter,
    pc |-> IF forceScatter THEN "forced"
           ELSE IF c < limit THEN "done" ELSE "limit",
    grid |-> lined.grid, rng |-> lined.rng, c |-> c, guard |-> 0 ]

\* part_001 263-274: generateSpin up to the scatter pass
enterScatterPass(x, math) ==
  Only({ LoopEntered(x, forceScatterOf(x, math), lined,
                     countScatter(lined.grid, math.scatterSymbol),
                     math.bonusTriggerCount)
       : lined \in { winPass(qaOverride(
                               createWeightedGrid(
                                 afterWinDraw(afterScatterDraw(x, math), math),
                                 math, Reels, Rows),
                               math),
                             math,
                             forceWinOf(afterScatterDraw(x, math), math)) } })

\* a loop test that never counts guard up.
forcedScatterTest_noCount(L0, math, desired) ==
  Only({
    IF ~(L.c < desired) THEN [L EXCEPT !.pc = "done"]
    ELSE LoopAt(L, ForcedTurn([grid |-> L.grid, rng |-> L.rng, c |-> L.c],
                              math, desired), "forced")
    : L \in {L0} })

\* part_001 398: `while (c < desired && guard++ < 200)` tested once, and the
\* body run if it holds.  guard is counted up only when c < desired.
forcedScatterTest(L0, math, desired) ==
  Only({
    IF ~(L.c < desired) THEN [L EXCEPT !.pc = "done"]
    ELSE IF ~(L.guard < ForcedGuard) THEN [L EXCEPT !.pc = "done", !.guard = @ + 1]
    ELSE LoopAt([L EXCEPT !.guard = @ + 1],
                ForcedTurn([grid |-> L.grid, rng |-> L.rng, c |-> L.c],
                           math, desired), "forced")
    : L \in {L0} })

\* part_001 417: `while (c >= limit && guard++ < 300)` tested once, and the
\* body run if it holds.
limitScatterTest(L0, math, limit) ==
  Only({
    IF ~(L.c >= limit) THEN [L EXCEPT !.pc = "done"]
    ELSE IF ~(L.guard < LimitGuard) THEN [L EXCEPT !.pc = "done", !.guard = @ + 1]
    ELSE LoopAt([L EXCEPT !.guard = @ + 1],
                LimitTurn([grid |-> L.grid, rng |-> L.rng, c |-> L.c],
                          math, limit), "limit")
    : L \in {L0} })

\* ---------------------------------------------------------------- ReelView
\* SlotModel.ts 40-43: randomSymbol for the rng call made in state x
randomSymbol(x) == DefaultSymbolIds[Scaled(x, Len(DefaultSymbolIds)) + 1]

\* n calls of randomSymbol in a row, from state x on
RECURSIVE RandomRun(_, _)
RandomRun(x0, n) ==
  Only({
    IF n = 0 THEN << >>
    ELSE IF n = 1 THEN << randomSymbol(x) >>
    ELSE RandomRun(x, n \div 2)
           \o RandomRun(RngSkip(x, n \div 2), n - n \div 2)
    : x \in {x0} })

\* ReelView.ts 51: the cells of the strip
StripCells == Rows + ReelBuffer * 2

\* ReelView constructor 42-68, with the rng in state x.  spinPos and
\* prevSpinPos are kept as whole steps (their fraction only offsets y).
newReel(x) ==
  [ symbols |-> RandomRun(x, StripCells), topIndex |-> 0,
    queue |-> << >>, queueRead |-> 0,
    spinPos |-> 0, prevSpinPos |-> 0, from |-> 0, target |-> 0,
    spinning |-> FALSE ]

\* ReelView.getVisibleSymbol 71-74 and getVisibleColumn 76-80
getVisibleColumn(R) ==
  [r \in 1..Rows |->
     R.symbols[((R.topIndex + ReelBuffer + (r - 1)) % StripCells) + 1]]

\* prepareSpin that queues nothing after the landing symbols.
prepareSpin_noTrailing(R, x, finalColumn, randomSteps) ==
  [R EXCEPT !.queue = RandomRun(x, randomSteps) \o finalColumn,
            !.queueRead = 0]

\* ReelView.prepareSpin 96-108, with the rng in state x
prepareSpin(R, x, finalColumn, randomSteps) ==
  [R EXCEPT !.queue = RandomRun(x, randomSteps) \o finalColumn
                      \o RandomRun(RngSkip(x, randomSteps), ReelBuffer),
            !.queueRead = 0]

\* ReelView.spin 110-133: the tween of spinPos to spinPos + steps is started
spin(R0) ==
  Only({
    IF Len(R.queue) - R.queueRead <= 0 THEN R
    ELSE [R EXCEPT !.from = R.spinPos,
                   !.target = R.spinPos + (Len(R.queue) - R.queueRead),
                   !.spinning = TRUE]
    : R \in {R0} })

\* ReelView.shiftOne 148-158
shiftOne(R0) ==
  Only({
    [R EXCEPT
       !.topIndex = (R.topIndex + 1) % StripCells,
       !.symbols =
         IF R.queueRead < Len(R.queue)
           THEN [R.symbols EXCEPT
                   ![(((((R.topIndex + 1) % StripCells) + StripCells - 1)) % StripCells) + 1]
                      = R.queue[R.queueRead + 1]]
           ELSE R.symbols,
       !.queueRead = R.queueRead + 1]
    : R \in {R0} })

\* ReelView.syncStrip 173: shiftOne n times
RECURSIVE ShiftTimes(_, _)
ShiftTimes(R0, n) ==
  Only({ IF n <= 0 THEN R
         ELSE IF n = 1 THEN shiftOne(R)
         ELSE ShiftTimes(ShiftTimes(R, n \div 2), n - n \div 2)
       : R \in {R0} })

\* ReelView.syncStrip 167-187
syncStrip(R0) ==
  Only({ [ShiftTimes(R, R.spinPos - R.prevSpinPos) EXCEPT !.prevSpinPos = R.spinPos]
       : R \in {R0} })

\* Easings.outQuint at t = 1: 1 - (1 - 1)^5
OutQuintAtOne == 1 - (1 - 1) * (1 - 1) * (1 - 1) * (1 - 1) * (1 - 1)

\* TweenManager.to (part_004 41-42) keeps the value the tween starts from.
\* TweenManager.update (part_004 69-103) for the reel's spinPos tween with
\* the eased position at pos (whole steps); at pos = target the tween has
\* run its time: the eased value is written, onUpdate (syncStrip) runs, the
\* value is snapped to the target and the tween ends, onComplete next.
tweenUpdate(R0, pos) ==
  Only({
    IF pos >= R.target
      THEN [syncStrip([R EXCEPT !.spinPos =
                         R.from + (R.target - R.from) * OutQuintAtOne])
              EXCEPT !.spinPos = R.target, !.spinning = FALSE]
      ELSE syncStrip([R EXCEPT !.spinPos = pos])
    : R \in {R0} })

\* ----------------------------------------------------- generated grids
\* Outcomes of SlotModel.spin() the sessions draw from (the RNG is the
\* nondeterministic input): a dead spin, a line win, a WILD on reel 0 (that
\* reel is [WILD,K,Q]), a bonus trigger (three SCATTER) that also shows a
\* WILD, and a grid with a WILD on every reel.
GridDead ==
  << <<"A","K","Q">>, <<"J","T","CROWN">>, <<"Q","A","K">>, <<"T","J","A">>, <<"K","Q","J">> >>
GridWin ==
  << <<"K","A","Q">>, <<"J","A","T">>, <<"Q","A","K">>, <<"T","J","CROWN">>, <<"K","Q","J">> >>
GridWild ==
  << <<"WILD","K","Q">>, <<"J","T","CROWN">>, <<"Q","A","K">>, <<"T","J","A">>, <<"K","Q","J">> >>
GridScatterWild ==
  << <<"A","K","Q">>, <<"J","WILD","CROWN">>, <<"SCATTER","A","K">>, <<"T","SCATTER","A">>, <<"K","Q","SCATTER">> >>
GridAllWild ==
  << <<"WILD","K","Q">>, <<"A","WILD","J">>, <<"K","Q","WILD">>, <<"WILD","J","T">>, <<"T","WILD","A">> >>

GenGrids == {GridDead, GridWin, GridWild, GridScatterWild, GridAllWild}


MaskChoices == [1..Reels -> BOOLEAN]

\* ------------------------------------------------------------------ state
VARIABLES
  math,        \* SlotScene.math, resolved once in enter()
  allowed,     \* StateMachine.allowed: state -> set of whitelisted targets
  hooks,       \* StateMachine.hooks: the states with an onEnter / onExit hook
  state,       \* StateMachine._state
  hookLog,     \* hook calls made by StateMachine.set, oldest first
               \*   (SlotScene: since the current round was accepted)
  balance, bet, lastWin, freeSpins, totalSpins,   \* SlotScene fields
  prevGrid,    \* SlotScene.prevGrid (Null before the first round ends)
  heldReels,   \* SlotScene.heldReels (Null before the first RESULT)
  round,       \* locals of the startSpinFlow closure in flight (or last run)
               \*   and pc, the await the callback is suspended at
  tweens,      \* tweens targeting the scene that carry a callback
  ledger,      \* history bookkeeping used only by the properties
  request,     \* the call made by the last step (bookkeeping)
  rng,         \* state of the generator behind SlotScene.rng; the session
               \*   specifications choose the grid of a spin directly and
               \*   leave it alone
  twin         \* a second session run on the same math and the same rng
               \*   stream (its Sess value and the state of its rng); Null
               \*   where a single session is specified

vars == << math, allowed, hooks, state, hookLog, balance, bet, lastWin,
           freeSpins, totalSpins, prevGrid, heldReels, round, tweens,
           ledger, request, rng, twin >>

\* The session as one value, so that a handler which runs on synchronously
\* into the next one (a callback with nothing to wait for) is one function.
Sess ==
  [ allowed |-> allowed, hooks |-> hooks, state |-> state, hookLog |-> hookLog,
    balance |-> balance, bet |-> bet, lastWin |-> lastWin,
    freeSpins |-> freeSpins, totalSpins |-> totalSpins,
    prevGrid |-> prevGrid, heldReels |-> heldReels, round |-> round,
    tweens |-> tweens, ledger |-> ledger, request |-> request ]

Apply(S0) ==
  \E S \in {S0} :
    /\ allowed' = S.allowed /\ hooks' = S.hooks
    /\ state' = S.state /\ hookLog' = S.hookLog
    /\ balance' = S.balance /\ bet' = S.bet /\ lastWin' = S.lastWin
    /\ freeSpins' = S.freeSpins /\ totalSpins' = S.totalSpins
    /\ prevGrid' = S.prevGrid /\ heldReels' = S.heldReels
    /\ round' = S.round /\ tweens' = S.tweens
    /\ ledger' = S.ledger /\ request' = S.request

\* ------------------------------------------------------- StateMachine
\* StateMachine.can
can(allow, cur, next) ==
  \/ next = cur
  \/ cur \in DOMAIN allow /\ next \in allow[cur]

\* set without the can() test: any other state is entered.
set_unchecked(allow, hk, sm, next) ==
  IF next = sm.state THEN sm
  ELSE [ state |-> next,
         log   |-> sm.log
                   \o (IF sm.state \in hk.onExit
                         THEN << <<"onExit", sm.state>> >> ELSE << >>)
                   \o (IF next \in hk.onEnter
                         THEN << <<"onEnter", next>> >> ELSE << >>) ]

\* StateMachine.set, on the pair (state, log of hook calls)
set(allow, hk, sm, next) ==
  IF ~can(allow, sm.state, next) THEN sm
  ELSE IF next = sm.state THEN sm
  ELSE [ state |-> next,
         log   |-> sm.log
                   \o (IF sm.state \in hk.onExit
                         THEN << <<"onExit", sm.state>> >> ELSE << >>)
                   \o (IF next \in hk.onEnter
                         THEN << <<"onEnter", next>> >> ELSE << >>) ]

\* The transition map and hooks SlotScene constructs its machine with.
SlotAllowed ==
  [ IDLE             |-> {"SPINNING"},
    SPINNING         |-> {"RESULT"},
    RESULT           |-> {"BONUS", "WIN_PRESENTATION", "IDLE"},
    BONUS            |-> {"WIN_PRESENTATION"},
    WIN_PRESENTATION |-> {"IDLE", "SPINNING"} ]

SlotHooks == [onEnter |-> SlotStates, onExit |-> {}]

\* this.state.set(next) inside SlotScene
SetState(S0, next) ==
  Only({
      LET sm == set(S.allowed, S.hooks, [state |-> S.state, log |-> S.hookLog], next)
      IN [S EXCEPT !.state = sm.state, !.hookLog = sm.log]
    : S \in {S0} })

\* ----------------------------------------------------------- bonus.ts
shouldTriggerBonus(scatterCount, m) ==
  m.bonusEnabled /\ scatterCount >= m.bonusTriggerCount

getBonusFreeSpinsAward(scatterCount, m) ==
  IF shouldTriggerBonus(scatterCount, m) THEN m.freeSpinsAward ELSE 0

getRetriggerFreeSpinsAward(scatterCount, m) ==
  IF ~m.freeSpinsRetriggerEnabled THEN 0
  ELSE IF scatterCount >= m.freeSpinsRetriggerCount
         THEN m.freeSpinsRetriggerAward ELSE 0

\* --------------------------------------------------------- spinLogic
\* heldReels[r] read as a JavaScript truth value (an absent entry is falsy)
IsHeld(mask, r) == r \in DOMAIN mask /\ mask[r]

\* the loop of spinGrid from reel r (1-based) on
RECURSIVE SpinGridLoop(_, _, _, _)
SpinGridLoop(next, previousGrid, held, r) ==
  IF r > Len(next) THEN next
  ELSE SpinGridLoop(IF IsHeld(held, r)
                      THEN [next EXCEPT ![r] = previousGrid[r]] ELSE next,
                    previousGrid, held, r + 1)

\* spinGrid that never looks at the hold mask.
spinGrid_noHold(gen, previousGrid, held) == gen

\* spinGrid, with gen the grid model.spin() returned
spinGrid(gen, previousGrid, held) ==
  IF previousGrid = Null \/ held = Null THEN gen
  ELSE SpinGridLoop(gen, previousGrid, held, 1)

\* ---------------------------------------------------------- SlotScene
clampToStep(v, min, max, step) ==
  LET clamped == Max(min, Min(max, v))
      s       == Max(1, step)
  IN MathRound(clamped, s) * s

NoEval ==
  [ winAmount |-> 0, winLines |-> << >>, scatterCount |-> 0,
    scatterWinAmount |-> 0, scatterPositions |-> << >>, heldReelsNext |-> Null ]

NoRound ==
  [ pc |-> "idle", grid |-> Null, freezeReels |-> Null, inFreeSpins |-> FALSE,
    evaluated |-> NoEval, retriggerAward |-> 0, award |-> 0 ]

NoRequest == [op |-> "none", outcome |-> "none", forceFree |-> FALSE, next |-> "IDLE"]

SpinRequest(outcome, forceFree) ==
  [op |-> "spin", outcome |-> outcome, forceFree |-> forceFree, next |-> "SPINNING"]

NoLedger ==
  [ paidBets |-> 0, wonTotal |-> 0, topUps |-> 0, inFlight |-> 0,
    kind |-> "none", betAtAccept |-> 0, balAtAccept |-> 0, topUpsAtAccept |-> 0,
    freeSpinsAtAccept |-> 0, respins |-> 0,
    rejectedSince |-> FALSE, rejectedBefore |-> FALSE,
    gen |-> Null, usedPrevGrid |-> Null,
    prevFreeze |-> Null, prevMask |-> Null, lastMask |-> Null,
    lastGrid |-> Null ]

\* killTweensOf that leaves the scene's tweens running.
killTweensOf_none(S) == S

\* TweenManager.killTweensOf(scene): the settle-delay tween and the scheduled
\* automatic spin are the scene's tweens that carry a callback.
killTweensOf(S) == [S EXCEPT !.tweens = [autoSpin |-> FALSE, delay |-> FALSE]]

shakeLose(S) == killTweensOf(S)

\* autoContinue that never schedules the next spin.
autoContinue_never(S) == S

\* startSpinFlow 707-713: with free spins left the next spin is scheduled.
autoContinue(S0) ==
  Only({
      IF S.freeSpins > 0 THEN [S EXCEPT !.tweens.autoSpin = TRUE] ELSE S
    : S \in {S0} })

\* afterDelay that does not save the stopped grid.
afterDelay_noSave(S) ==
  autoContinue(
    [SetState([S EXCEPT !.tweens.delay = FALSE], "IDLE") EXCEPT
       !.round.pc = "idle",
       !.ledger.wonTotal = @ + S.round.evaluated.winAmount,
       !.ledger.inFlight = @ - 1])

\* startSpinFlow 697-714: the settle delay has elapsed.
afterDelay(S0) ==
  Only({
      autoContinue(
        [SetState([S EXCEPT !.tweens.delay = FALSE], "IDLE") EXCEPT
           !.prevGrid = S.round.grid,
           !.round.pc = "idle",
           !.ledger.wonTotal = @ + S.round.evaluated.winAmount,
           !.ledger.inFlight = @ - 1])
    : S \in {S0} })

\* delay that kills the scene's tweens but schedules none.
delay_noTween(S) == [killTweensOf(S) EXCEPT !.round.pc = "settle"]

\* SlotScene.delay
delay(S) == [killTweensOf(S) EXCEPT !.tweens.delay = TRUE, !.round.pc = "settle"]

\* creditWin that adds the win a second time.
creditWin_twice(S, win) ==
  IF win > 0 THEN [S EXCEPT !.balance = @ + win + win, !.lastWin = win] ELSE S

\* startSpinFlow 674-678: the win is added to the balance.
creditWin(S0, win) ==
  Only({
      IF win > 0 THEN [S EXCEPT !.balance = @ + win, !.lastWin = win] ELSE S
    : S \in {S0} })

\* startSpinFlow 674-697: presentation has finished; credit the win, settle.
afterPresent(S0) ==
  Only({
    delay(creditWin(S, S.round.evaluated.winAmount))
    : S \in {S0} })

\* startSpinFlow 658-663: flashWin on a win, shakeLose on a dead spin.
feedback(S0) ==
  Only({
      IF S.round.evaluated.winAmount > 0 THEN S
      ELSE IF S.round.award <= 0 THEN shakeLose(S) ELSE S
    : S \in {S0} })

\* startSpinFlow 666-672: present() returns at once when totalWin <= 0.
present(S0) ==
  Only({
      IF S.round.evaluated.winAmount <= 0 THEN afterPresent(S)
      ELSE [S EXCEPT !.round.pc = "present"]
    : S \in {S0} })

\* presentWin that goes straight on when there is nothing to present.
presentWin_skipEmpty(S) ==
  IF S.round.evaluated.winAmount <= 0 THEN afterPresent(feedback(S))
  ELSE present(SetState(S, "WIN_PRESENTATION"))

\* startSpinFlow 658-672: feedback, enter WIN_PRESENTATION, present().
presentWin(S) == present(SetState(feedback(S), "WIN_PRESENTATION"))

\* startSpinFlow 654-656: the bonus popup was dismissed (or not shown).
afterBonusPopup(S0) ==
  Only({
      presentWin([S EXCEPT !.freeSpins = @ + S.round.award])
    : S \in {S0} })

\* startSpinFlow 651-656: the popup is awaited only for a trigger or retrigger.
bonusPopup(S0) ==
  Only({
      IF shouldTriggerBonus(S.round.evaluated.scatterCount, math)
           \/ S.round.retriggerAward > 0
        THEN [S EXCEPT !.round.pc = "bonusPopup"]
        ELSE afterBonusPopup(S)
    : S \in {S0} })

\* startSpinFlow 649-653
afterHoldShoot(S0) ==
  Only({
      IF S.round.award > 0 THEN bonusPopup(SetState(S, "BONUS"))
      ELSE presentWin(S)
    : S \in {S0} })

\* holdDecision without the reset of the reels frozen on this spin.
holdDecision_keepFrozen(inFreeSpins, grid, evaluated, freezeReels) ==
  IF inFreeSpins THEN [i \in 1..Len(grid) |-> FALSE]
  ELSE evaluated.heldReelsNext

\* holdDecision that locks every reel that spun, WILD or not.
holdDecision_everyReel(inFreeSpins, grid, evaluated, freezeReels) ==
  IF inFreeSpins THEN [i \in 1..Len(grid) |-> FALSE]
  ELSE [i \in 1..Len(evaluated.heldReelsNext) |-> ~IsHeld(freezeReels, i)]

\* startSpinFlow 592-605: the mask left for the next spin.
holdDecision(inFreeSpins, grid, evaluated, freezeReels) ==
  IF inFreeSpins THEN [i \in 1..Len(grid) |-> FALSE]
  ELSE [i \in 1..Len(evaluated.heldReelsNext) |->
          IF IsHeld(freezeReels, i) THEN FALSE ELSE evaluated.heldReelsNext[i]]

\* startSpinFlow 607-634: the hold FX is awaited only when a reel is newly
\* locked.
holdFx(S0) ==
  Only({
      IF \E i \in 1..Len(S.heldReels) :
           S.heldReels[i] /\ ~IsHeld(S.round.freezeReels, i)
        THEN [S EXCEPT !.round.pc = "holdFx"]
        ELSE afterHoldShoot(S)
    : S \in {S0} })

\* startSpinFlow 588-605: the awards and the mask for the next spin.
onEvaluated(S0, inFreeSpins, evaluated, bonusAward, retriggerAward) ==
  Only({
      holdFx([S EXCEPT
                !.heldReels = holdDecision(inFreeSpins, S.round.grid, evaluated,
                                           S.round.freezeReels),
                !.round.inFreeSpins = inFreeSpins,
                !.round.evaluated = evaluated,
                !.round.retriggerAward = retriggerAward,
                !.round.award = bonusAward + retriggerAward,
                !.ledger.lastMask = holdDecision(inFreeSpins, S.round.grid,
                                                 evaluated, S.round.freezeReels)])
    : S \in {S0} })

\* startSpinFlow 530-590: evaluate the stopped grid.
onResult(S, inFreeSpins, evaluated) ==
  onEvaluated(S, inFreeSpins, evaluated,
              getBonusFreeSpinsAward(evaluated.scatterCount, math),
              IF inFreeSpins
                THEN getRetriggerFreeSpinsAward(evaluated.scatterCount, math)
                ELSE 0)

\* startSpinFlow 527-634: the spinTo callback, up to its first await.
onAllComplete(S0) ==
  Only({
    Only({ onResult(SetState(S, "RESULT"), S.freeSpins > 0, evaluated)
           : evaluated \in {evaluateGrid(S.round.grid, S.bet, math,
                                         S.freeSpins > 0)} })
    : S \in {S0} })

\* SlotMachineView.spinTo: a reel that is frozen reports done at once, so
\* with every reel frozen the callback runs inside spinTo.
spinTo(S0) ==
  Only({
      IF \A i \in 1..Reels : IsHeld(S.round.freezeReels, i)
        THEN onAllComplete(S) ELSE S
    : S \in {S0} })

\* startSpinFlow 480-525
startSpinFlow(S0, gen) ==
  Only({
      spinTo(
        [killTweensOf(SetState([S EXCEPT !.hookLog = << >>], "SPINNING")) EXCEPT
           !.round = [NoRound EXCEPT !.pc = "spinning",
                                     !.grid = spinGrid(gen, S.prevGrid, S.heldReels),
                                     !.freezeReels = S.heldReels],
           !.ledger.gen = gen,
           !.ledger.usedPrevGrid = S.prevGrid,
           !.ledger.prevFreeze = S.round.freezeReels,
           !.ledger.prevMask = S.ledger.lastMask,
           !.ledger.lastGrid = S.round.grid,
           !.ledger.inFlight = @ + 1])
    : S \in {S0} })

\* spinAllowed without the IDLE test: only StateMachine.can decides.
spinAllowed_canOnly(S) == can(S.allowed, S.state, "SPINNING")

\* requestSpin 433-434: the request is looked at only in IDLE.
spinAllowed(S) ==
  can(S.allowed, S.state, "SPINNING") /\ S.state = "IDLE"

\* cannotAfford that only turns away an empty balance.
cannotAfford_empty(S, isAnyFree) == ~isAnyFree /\ S.balance <= 0

\* requestSpin 440: a paid spin the balance does not cover.
cannotAfford(S, isAnyFree) == ~isAnyFree /\ S.balance < S.bet

\* debit with the free-spin and respin branches removed: every accepted
\* spin is charged the bet.
debit_chargeAlways(S, isFreeSpin, isRespin) ==
  [S EXCEPT !.balance = @ - S.bet,
            !.freeSpins = IF isFreeSpin THEN @ - 1 ELSE @]

\* requestSpin 446-452: take the spin from the free-spin pool or the balance.
debit(S0, isFreeSpin, isRespin) ==
  Only({
      IF isFreeSpin THEN [S EXCEPT !.freeSpins = @ - 1]
      ELSE IF ~isRespin THEN [S EXCEPT !.balance = @ - S.bet]
      ELSE S
    : S \in {S0} })

\* SlotScene.requestSpin
requestSpin(S0, forceFree, gen) ==
  Only({
      IF ~spinAllowed(S)
        THEN [S EXCEPT !.request = SpinRequest("refused", forceFree)]
      ELSE
        LET isFreeSpin == S.freeSpins > 0
            isRespin   == forceFree /\ S.freeSpins <= 0
            isAnyFree  == isFreeSpin \/ isRespin
        IN IF cannotAfford(S, isAnyFree)
             THEN [shakeLose(S) EXCEPT !.request = SpinRequest("rejected", forceFree),
                                       !.ledger.rejectedSince = TRUE]
             ELSE
               LET S1 == debit(S, isFreeSpin, isRespin)
                   S2 == [S1 EXCEPT
                            !.totalSpins = @ + 1,
                            !.lastWin = 0,
                            !.request = SpinRequest("accepted", forceFree),
                            !.ledger.kind = IF isFreeSpin THEN "free"
                                            ELSE IF isRespin THEN "respin" ELSE "paid",
                            !.ledger.paidBets = IF isAnyFree THEN @ ELSE @ + S.bet,
                            !.ledger.respins = IF forceFree THEN @ + 1 ELSE @,
                            !.ledger.rejectedBefore = S.ledger.rejectedSince,
                            !.ledger.rejectedSince = FALSE,
                            !.ledger.betAtAccept = S.bet,
                            !.ledger.balAtAccept = S.balance,
                            !.ledger.freeSpinsAtAccept = S.freeSpins,
                            !.ledger.topUpsAtAccept = S.ledger.topUps]
               IN startSpinFlow(S2, gen)
    : S \in {S0} })

\* changeBet without the free-spin guard.
changeBet_inFreeSpins(S0, delta) ==
  Only({
      IF S.state # "IDLE" THEN S
      ELSE [S EXCEPT !.bet = clampToStep(S.bet + delta, math.betMin, math.betMax,
                                         math.betStep)]
    : S \in {S0} })

\* SlotScene.changeBet
changeBet(S0, delta) ==
  Only({
      IF S.state # "IDLE" THEN S
      ELSE IF S.freeSpins > 0 THEN S
      ELSE [S EXCEPT !.bet = clampToStep(S.bet + delta, math.betMin, math.betMax,
                                         math.betStep)]
    : S \in {S0} })

\* SlotScene.addCredits
addCredits(S, amount) ==
  [S EXCEPT !.balance = @ + amount, !.ledger.topUps = @ + amount]

\* ---------------------------------------------------------------- actions
Quiet(S) == [S EXCEPT !.request = NoRequest]

\* field initialisers of SlotScene and enter()
Init ==
  /\ math \in MathChoices
  /\ allowed = SlotAllowed
  /\ hooks = SlotHooks
  /\ state = "IDLE"
  /\ hookLog = << >>
  /\ balance = InitialBalance
  /\ bet = clampToStep(InitialBet, math.betMin, math.betMax, math.betStep)
  /\ lastWin = 0
  /\ freeSpins = 0
  /\ totalSpins = 0
  /\ prevGrid = Null
  /\ heldReels = Null
  /\ round = NoRound
  /\ tweens = [autoSpin |-> FALSE, delay |-> FALSE]
  /\ ledger = NoLedger
  /\ request = NoRequest
  /\ rng = 0
  /\ twin = Null

\* requestSpin 433-444: the request gets as far as the spin.
accepts(S, forceFree) ==
  /\ spinAllowed(S)
  /\ ~cannotAfford(S, S.freeSpins > 0 \/ (forceFree /\ S.freeSpins <= 0))

\* A call requestSpin(forceFree).  model.spin() is reached, and a grid drawn
\* from the RNG, only by a request that is accepted.
Request(forceFree) ==
  /\ accepts(Sess, forceFree) => totalSpins < MaxSpins
  /\ \E gen \in IF accepts(Sess, forceFree) THEN GenGrids ELSE {GridDead} :
       Apply(requestSpin(Sess, forceFree, gen))

\* hud.onSpin: requestSpin()
RequestSpin ==
  /\ UNCHANGED << math, rng, twin >>
  /\ Request(FALSE)

\* requestSpin(true), the internal forced respin (no caller in the scene)
ForcedRespin ==
  /\ ledger.respins < MaxRespins
  /\ UNCHANGED << math, rng, twin >>
  /\ Request(TRUE)

\* the tween scheduled at startSpinFlow 709-712 completes: requestSpin()
AutoSpin ==
  /\ tweens.autoSpin
  /\ totalSpins < MaxSpins
  /\ UNCHANGED << math, rng, twin >>
  /\ \E gen \in GenGrids :
       LET S == requestSpin([Sess EXCEPT !.tweens.autoSpin = FALSE], FALSE, gen)
       IN Apply([S EXCEPT !.request.op = "autoSpin"])

\* the last spinning reel reports done
ReelsStop ==
  /\ round.pc = "spinning"
  /\ UNCHANGED << math, rng, twin >>
  /\ Apply(Quiet(onAllComplete(Sess)))

\* pirateFx.playHoldShoot resolves
HoldShootDone ==
  /\ round.pc = "holdFx"
  /\ UNCHANGED << math, rng, twin >>
  /\ Apply(Quiet(afterHoldShoot(Sess)))

\* showBonusPopup resolves
BonusPopupDone ==
  /\ round.pc = "bonusPopup"
  /\ UNCHANGED << math, rng, twin >>
  /\ Apply(Quiet(afterBonusPopup(Sess)))

\* presenter.present resolves
PresentDone ==
  /\ round.pc = "present"
  /\ UNCHANGED << math, rng, twin >>
  /\ Apply(Quiet(afterPresent(Sess)))

\* the tween of delay(0.35) completes
DelayDone ==
  /\ round.pc = "settle"
  /\ tweens.delay
  /\ UNCHANGED << math, rng, twin >>
  /\ Apply(Quiet(afterDelay(Sess)))

\* hud.onBetMinus / hud.onBetPlus
ChangeBet ==
  /\ UNCHANGED << math, rng, twin >>
  /\ \E delta \in {-BetDelta, BetDelta} : Apply(Quiet(changeBet(Sess, delta)))

\* hud.onBalanceAdd
AddCredits ==
  /\ ledger.topUps < MaxTopUps * CreditAmount
  /\ UNCHANGED << math, rng, twin >>
  /\ Apply(Quiet(addCredits(Sess, CreditAmount)))

Next ==
  \/ RequestSpin
  \/ AutoSpin
  \/ ReelsStop
  \/ HoldShootDone
  \/ BonusPopupDone
  \/ PresentDone
  \/ DelayDone
  \/ ChangeBet
  \/ AddCredits

Spec == Init /\ [][Next]_vars

\* The session with the scheduling the ticker gives: a reel spin, the hold
\* FX, the bonus popup, the win presentation and the settle delay each
\* complete once started (spinTo's onAllComplete, the awaited promises of
\* startSpinFlow, the tween of delay), and the tween that schedules the next
\* free spin fires unless a spin request kills it first.
SpecLive ==
  /\ Init /\ [][Next]_vars
  /\ WF_vars(ReelsStop)
  /\ WF_vars(HoldShootDone)
  /\ WF_vars(BonusPopupDone)
  /\ WF_vars(PresentDone)
  /\ WF_vars(DelayDone)
  /\ WF_vars(AutoSpin)

\* The session played at the bet it starts with, the forced-respin entry of
\* requestSpin in use.
NextForced ==
  \/ RequestSpin
  \/ ForcedRespin
  \/ AutoSpin
  \/ ReelsStop
  \/ HoldShootDone
  \/ BonusPopupDone
  \/ PresentDone
  \/ DelayDone
  \/ AddCredits

SpecForced == Init /\ [][NextForced]_vars

\* ------------------------------------------- StateMachine on its own
\* Transition maps (TransitionMap is Partial: a state may have no entry) and
\* hook tables a StateMachine is constructed with.
AllowedChoices ==
  { SlotAllowed,
    [ IDLE |-> {"SPINNING"}, SPINNING |-> {"RESULT", "IDLE"} ] }

HookChoices ==
  { SlotHooks,
    [onEnter |-> {"IDLE"}, onExit |-> {"SPINNING", "RESULT"}],
    [onEnter |-> {}, onExit |-> {}] }

\* new StateMachine(initial, allowed, hooks)
InitSM ==
  /\ math \in MathChoices
  /\ allowed \in AllowedChoices
  /\ hooks \in HookChoices
  /\ state \in SlotStates
  /\ hookLog = << >>
  /\ balance = InitialBalance
  /\ bet = InitialBet
  /\ lastWin = 0 /\ freeSpins = 0 /\ totalSpins = 0
  /\ prevGrid = Null /\ heldReels = Null
  /\ round = NoRound
  /\ tweens = [autoSpin |-> FALSE, delay |-> FALSE]
  /\ ledger = NoLedger
  /\ request = NoRequest
  /\ rng = 0
  /\ twin = Null

\* a call set(next); the result of can(next) just before it is recorded
MachineSet ==
  /\ Len(hookLog) < MaxHooks
  /\ \E next \in SlotStates :
       LET sm == set(allowed, hooks, [state |-> state, log |-> hookLog], next)
       IN /\ state' = sm.state
          /\ hookLog' = sm.log
          /\ request' = [ op |-> "set",
                          outcome |-> IF can(allowed, state, next)
                                        THEN "can" ELSE "cannot",
                          forceFree |-> FALSE, next |-> next ]
  /\ UNCHANGED << math, rng, twin, allowed, hooks, balance, bet, lastWin, freeSpins,
                  totalSpins, prevGrid, heldReels, round, tweens, ledger >>

NextSM == MachineSet

SpecSM == InitSM /\ [][NextSM]_vars

\* --------------------------------------------------- spinGrid on its own
\* spinGrid's arguments: any previous grid or none, any mask or none
InitCompose ==
  /\ math \in MathChoices
  /\ allowed = SlotAllowed
  /\ hooks = SlotHooks
  /\ state = "IDLE"
  /\ hookLog = << >>
  /\ balance = InitialBalance
  /\ bet = InitialBet
  /\ lastWin = 0 /\ freeSpins = 0 /\ totalSpins = 0
  /\ prevGrid \in GenGrids \cup {Null}
  /\ heldReels \in MaskChoices \cup {Null}
  /\ round = NoRound
  /\ tweens = [autoSpin |-> FALSE, delay |-> FALSE]
  /\ ledger = NoLedger
  /\ request = NoRequest
  /\ rng = 0
  /\ twin = Null

\* a call spinGrid(model, prevGrid, heldReels); model.spin() gives gen
Compose ==
  /\ \E gen \in GenGrids :
       /\ round' = [round EXCEPT !.grid = spinGrid(gen, prevGrid, heldReels)]
       /\ ledger' = [ledger EXCEPT !.gen = gen]
  /\ request' = [op |-> "compose", outcome |-> "none", forceFree |-> FALSE,
                 next |-> "IDLE"]
  /\ UNCHANGED << math, rng, twin, allowed, hooks, state, hookLog, balance, bet, lastWin,
                  freeSpins, totalSpins, prevGrid, heldReels, tweens >>

NextCompose == Compose

SpecCompose == InitCompose /\ [][NextCompose]_vars

\* ---------------------------------------------- evaluateGrid on its own
\* Reel columns the evaluated grids are put together from: A on the middle
\* row of three of them, a WILD on the top row, a SCATTER on the top row over
\* a WILD on the bottom row, and a column with neither A, WILD nor SCATTER.
EvalColumns ==
  { << "K", "A", "A" >>, << "WILD", "A", "Q" >>,
    << "SCATTER", "A", "WILD" >>, << "K", "Q", "J" >> }

EvalGrids == [1..Reels -> EvalColumns]

\* EnvMathSpec values the evaluator is called with: the defaults; A as the
\* configured scatter symbol with scatter pays on; WILD paying itself with a
\* 3/2 free-spin multiplier, scatter pays on and bets in steps of 5; WILD
\* not substituting; and a paytable
\* (Partial<Record<...>>) with no entry for K, no 3-count entry for A and a
\* zero 4-count entry for A.
EvalMathChoices ==
  { DefaultMath,
    [DefaultMath EXCEPT !.scatterSymbol = "A", !.scatterPays = TRUE],
    [DefaultMath EXCEPT !.wildPaysItself = TRUE, !.freeSpinsWinMult = <<3, 2>>,
                        !.scatterPays = TRUE, !.betMin = 5, !.betStep = 5],
    [DefaultMath EXCEPT !.wildSubstitutes = FALSE],
    [DefaultMath EXCEPT
       !.paytable =
         [s \in DOMAIN DefaultPaytable \ {"K"} |->
            IF s = "A" THEN [c \in {4, 5} |-> IF c = 4 THEN 0 ELSE 8]
            ELSE DefaultPaytable[s]]] }

\* the bets evaluateGrid is called with
EvalBets == {5, 10}

\* the arguments of a call evaluateGrid(grid, bet, math, inFreeSpins)
InitEval ==
  /\ math \in EvalMathChoices
  /\ allowed = SlotAllowed
  /\ hooks = SlotHooks
  /\ state = "IDLE"
  /\ hookLog = << >>
  /\ balance = InitialBalance
  /\ bet \in EvalBets
  /\ lastWin = 0 /\ freeSpins = 0 /\ totalSpins = 0
  /\ prevGrid = Null /\ heldReels = Null
  /\ round \in { [NoRound EXCEPT !.grid = g, !.inFreeSpins = f] :
                   g \in EvalGrids, f \in BOOLEAN }
  /\ tweens = [autoSpin |-> FALSE, delay |-> FALSE]
  /\ ledger = NoLedger
  /\ request = NoRequest
  /\ rng = 0
  /\ twin = Null

\* the call evaluateGrid(grid, bet, math, inFreeSpins) returns
EvaluateGrid ==
  /\ request.op = "none"
  /\ round' = [round EXCEPT
                 !.evaluated = evaluateGrid(round.grid, bet, math,
                                            round.inFreeSpins)]
  /\ request' = [op |-> "evaluate", outcome |-> "none", forceFree |-> FALSE,
                 next |-> "IDLE"]
  /\ UNCHANGED << math, rng, twin, allowed, hooks, state, hookLog, balance, bet, lastWin,
                  freeSpins, totalSpins, prevGrid, heldReels, tweens, ledger >>

NextEval == EvaluateGrid

SpecEval == InitEval /\ [][NextEval]_vars

\* ------------------------------------- specification of the generator alone
\* The maths generateSpin is called with: the defaults with even odds for
\* both decisions; three symbols with many SCATTER and no forced decision;
\* both QA flags set; a forced symbol; a forced scatter symbol; a trigger
\* count no grid can reach; a trigger count of zero; and A as the scatter
\* symbol.
GenMathChoices ==
  { [DefaultMath EXCEPT !.hitRate = <<1, 2>>, !.bonusTargetFrequency = <<1, 2>>],
    [DefaultMath EXCEPT !.symbols = <<"A", "SCATTER", "K">>,
                        !.weights = [DefaultWeights EXCEPT !.A = 2, !.SCATTER = 2, !.K = 1],
                        !.hitRate = <<0, 1>>, !.bonusTargetFrequency = <<0, 1>>],
    [DefaultMath EXCEPT !.qaForceBonus = TRUE, !.qaForceWin = TRUE],
    [DefaultMath EXCEPT !.qaForceSymbol = "Q",
                        !.hitRate = <<1, 2>>, !.bonusTargetFrequency = <<1, 2>>],
    [DefaultMath EXCEPT !.qaForceSymbol = "SCATTER",
                        !.hitRate = <<1, 2>>, !.bonusTargetFrequency = <<1, 2>>],
    [DefaultMath EXCEPT !.bonusTriggerCount = 16, !.qaForceBonus = TRUE],
    [DefaultMath EXCEPT !.bonusTriggerCount = 0,
                        !.bonusTargetFrequency = <<1, 2>>],
    [DefaultMath EXCEPT !.scatterSymbol = "A",
                        !.hitRate = <<1, 2>>, !.bonusTargetFrequency = <<1, 2>>] }

\* the states of the rng the call is made in
RngStates == 0..(RngModulus - 1)

InitGen ==
  /\ math \in GenMathChoices
  /\ allowed = SlotAllowed
  /\ hooks = SlotHooks
  /\ state = "IDLE"
  /\ hookLog = << >>
  /\ balance = InitialBalance
  /\ bet = InitialBet
  /\ lastWin = 0 /\ freeSpins = 0 /\ totalSpins = 0
  /\ prevGrid = Null /\ heldReels = Null
  /\ round = NoRound
  /\ tweens = [autoSpin |-> FALSE, delay |-> FALSE]
  /\ ledger = NoLedger
  /\ request = NoRequest
  /\ rng \in RngStates
  /\ twin = Null

\* the call generateSpin(rng, math, reels, rows) returns; request keeps what
\* it returned and the state of rng it was made in
GenerateSpin ==
  /\ request.op = "none"
  /\ \E gen \in {generateSpin(rng, math, Reels, Rows)} :
       /\ round' = [round EXCEPT !.grid = gen.grid]
       /\ rng' = gen.rng
       /\ request' = [op |-> "generate", outcome |-> "none", forceFree |-> FALSE,
                      next |-> "IDLE", seed |-> rng, gen |-> gen]
  /\ UNCHANGED << math, twin, allowed, hooks, state, hookLog, balance, bet, lastWin,
                  freeSpins, totalSpins, prevGrid, heldReels, tweens, ledger >>

NextGen == GenerateSpin

SpecGen == InitGen /\ [][NextGen]_vars

\* -------------------------------------- specification of the resolver alone
\* What a key of the environment may hold: nothing, the empty string, no
\* number at all, a negative number, zero, a number followed by a comment,
\* and a number with a fraction.
RawValues ==
  { Undefined, << >>, <<"a", "b">>, <<"-", "5">>, <<"0">>,
    <<"2", "0", " ", "#", "x">>, <<"1", ".", "5">> }

\* W_A, the other weight keys (all missing or all "0"), the three bet keys
\* and SYMBOLS are set; every other key is missing
EnvOf(wA, wRest, betMin, betMax, betStep, symbols) ==
  [ W_A |-> wA, W_K |-> wRest, W_Q |-> wRest, W_J |-> wRest, W_T |-> wRest,
    W_CROWN |-> wRest, W_SKULL |-> wRest, W_PARROT |-> wRest,
    W_CANNON |-> wRest, W_CHEST_GOLD |-> wRest, W_COMPASS |-> wRest,
    W_SCATTER |-> wRest, W_WILD |-> wRest,
    BET_MIN |-> betMin, BET_MAX |-> betMax, BET_STEP |-> betStep,
    SYMBOLS |-> symbols ]

EnvChoices ==
  { EnvOf(wA, wRest, betMin, betMax, betStep, symbols) :
      wA \in RawValues, wRest \in {Undefined, <<"0">>},
      betMin \in RawValues, betMax \in RawValues, betStep \in RawValues,
      symbols \in {Undefined, <<"a", ",", " ", "s", "t", "a", "r", ",", ",", "x">>} }

\* before enter() resolves it the scene has no math; request.env is the
\* environment of the build
InitResolve ==
  /\ math = Null
  /\ allowed = SlotAllowed
  /\ hooks = SlotHooks
  /\ state = "IDLE"
  /\ hookLog = << >>
  /\ balance = InitialBalance
  /\ bet = InitialBet
  /\ lastWin = 0 /\ freeSpins = 0 /\ totalSpins = 0
  /\ prevGrid = Null /\ heldReels = Null
  /\ round = NoRound
  /\ tweens = [autoSpin |-> FALSE, delay |-> FALSE]
  /\ ledger = NoLedger
  /\ request \in { [op |-> "none", outcome |-> "none", forceFree |-> FALSE,
                    next |-> "IDLE", env |-> e] : e \in EnvChoices }
  /\ rng = 0
  /\ twin = Null

\* this.math = loadEnvMathSpec()
LoadEnvMathSpec ==
  /\ request.op = "none"
  /\ math' = loadEnvMathSpec(request.env)
  /\ request' = [request EXCEPT !.op = "resolve"]
  /\ UNCHANGED << rng, twin, allowed, hooks, state, hookLog, balance, bet, lastWin,
                  freeSpins, totalSpins, prevGrid, heldReels, round, tweens,
                  ledger >>

NextResolve == LoadEnvMathSpec

SpecResolve == InitResolve /\ [][NextResolve]_vars

\* ------------------------------------------------------------------------
\* pickWeightedSymbol alone: the call made in every state of the rng, on
\* weight tables with a leading zero, a zero in the middle, a zero total and
\* a negative total (W_* are not clamped by loadEnvMathSpec).
PickMathChoices ==
  { DefaultMath,
    [DefaultMath EXCEPT !.symbols = <<"K", "A", "Q">>,
                        !.weights = [DefaultWeights EXCEPT !.K = 0, !.A = 3, !.Q = 1]],
    [DefaultMath EXCEPT !.symbols = <<"A", "K", "Q">>,
                        !.weights = [DefaultWeights EXCEPT !.A = 2, !.K = 0, !.Q = 2]],
    [DefaultMath EXCEPT !.symbols = <<"Q", "K">>,
                        !.weights = [DefaultWeights EXCEPT !.Q = 0, !.K = 0]],
    [DefaultMath EXCEPT !.weights = [DefaultWeights EXCEPT !.A = -150]],
    [DefaultMath EXCEPT !.symbols = <<"Q", "K">>,
                        !.weights = [DefaultWeights EXCEPT !.Q = -3, !.K = 1]] }

InitPick ==
  /\ math \in PickMathChoices
  /\ allowed = SlotAllowed
  /\ hooks = SlotHooks
  /\ state = "IDLE"
  /\ hookLog = << >>
  /\ balance = InitialBalance
  /\ bet = InitialBet
  /\ lastWin = 0 /\ freeSpins = 0 /\ totalSpins = 0
  /\ prevGrid = Null /\ heldReels = Null
  /\ round = NoRound
  /\ tweens = [autoSpin |-> FALSE, delay |-> FALSE]
  /\ ledger = NoLedger
  /\ request = NoRequest
  /\ rng \in RngStates
  /\ twin = Null

\* the call pickWeightedSymbol(rng, math) returns; request keeps the symbol
\* and the state of rng the call was made in
PickWeightedSymbol ==
  /\ request.op = "none"
  /\ rng' = RngNext(rng)
  /\ request' = [op |-> "pick", outcome |-> "none", forceFree |-> FALSE,
                 next |-> "IDLE", seed |-> rng,
                 sym |-> pickWeightedSymbol(rng, math)]
  /\ UNCHANGED << math, twin, allowed, hooks, state, hookLog, balance, bet, lastWin,
                  freeSpins, totalSpins, prevGrid, heldReels, round, tweens,
                  ledger >>

NextPick == PickWeightedSymbol

SpecPick == InitPick /\ [][NextPick]_vars

\* ------------------------------------------------- two sessions, one stream
\* SlotModel.spin: the grid of generateSpin; its flags are dropped.
modelSpin(x) == generateSpin(x, math, Reels, Rows).grid

\* SlotMachineView.spinTo and ReelView.prepareSpin: the rng calls of one
\* spin's reel strips.  Reel i (0-based), unless frozen, queues
\* baseSteps + i * stepStagger random symbols and `buffer` trailing ones.
RECURSIVE PrepareDraws(_, _)
PrepareDraws(freeze, i) ==
  IF i > Reels THEN 0
  ELSE (IF IsHeld(freeze, i) THEN 0
        ELSE BaseSteps + (i - 1) * StepStagger + ReelBuffer)
       + PrepareDraws(freeze, i + 1)

\* a requestSpin that calls the rng although the request is turned down.
rngAfterRequest_always(S, x, forceFree) ==
  RngSkip(generateSpin(x, math, Reels, Rows).rng, PrepareDraws(S.heldReels, 1))

\* requestSpin 433-444, startSpinFlow 490-493 and 716: the rng is called by
\* model.spin and spinTo, which only an accepted request reaches.
rngAfterRequest(S, x, forceFree) ==
  IF accepts(S, forceFree)
    THEN RngSkip(generateSpin(x, math, Reels, Rows).rng,
                 PrepareDraws(S.heldReels, 1))
    ELSE x

\* hud.onSpin on a session S whose rng is in state x
pressSpin(S0, x) ==
  Only({ [b |-> requestSpin(S, FALSE, modelSpin(x)),
          rng |-> rngAfterRequest(S, x, FALSE)] : S \in {S0} })

\* the scheduled automatic spin on a session S whose rng is in state x
autoSpin(S0, x) ==
  Only({ [b |-> [requestSpin(S, FALSE, modelSpin(x)) EXCEPT
                   !.request.op = "autoSpin"],
          rng |-> rngAfterRequest(S, x, FALSE)]
       : S \in {[S0 EXCEPT !.tweens.autoSpin = FALSE]} })

\* ------------------------------------------------------------------------
\* Two sessions on the same math, started from the same rng state.  Each is
\* pressed and completes its waits on its own schedule: a press that comes
\* while a round is running is turned down, so the two sessions play the same
\* rounds with waits of different lengths.
TwinMathChoices ==
  { [m EXCEPT !.hitRate = <<1, 2>>, !.bonusTargetFrequency = <<1, 2>>]
    : m \in MathChoices }

TwinSeeds == 0..(MaxSeeds - 1)

InitTwin ==
  /\ math \in TwinMathChoices
  /\ allowed = SlotAllowed
  /\ hooks = SlotHooks
  /\ state = "IDLE"
  /\ hookLog = << >>
  /\ balance = InitialBalance
  /\ bet = clampToStep(InitialBet, math.betMin, math.betMax, math.betStep)
  /\ lastWin = 0
  /\ freeSpins = 0
  /\ totalSpins = 0
  /\ prevGrid = Null
  /\ heldReels = Null
  /\ round = NoRound
  /\ tweens = [autoSpin |-> FALSE, delay |-> FALSE]
  /\ ledger = NoLedger
  /\ request = NoRequest
  /\ rng \in TwinSeeds
  /\ twin = [b |-> Sess, rng |-> rng]

\* hud.onSpin of the first session
PressFirst ==
  /\ accepts(Sess, FALSE) => totalSpins < MaxSpins
  /\ UNCHANGED << math, twin >>
  /\ \E t \in {pressSpin(Sess, rng)} : Apply(t.b) /\ rng' = t.rng

\* the automatic spin of the first session
AutoFirst ==
  /\ tweens.autoSpin
  /\ totalSpins < MaxSpins
  /\ UNCHANGED << math, twin >>
  /\ \E t \in {autoSpin(Sess, rng)} : Apply(t.b) /\ rng' = t.rng

\* hud.onSpin of the second session
PressSecond ==
  /\ accepts(twin.b, FALSE) => twin.b.totalSpins < MaxSpins
  /\ twin' = pressSpin(twin.b, twin.rng)
  /\ UNCHANGED << math, rng, allowed, hooks, state, hookLog, balance, bet,
                  lastWin, freeSpins, totalSpins, prevGrid, heldReels, round,
                  tweens, ledger, request >>

\* the automatic spin of the second session
AutoSecond ==
  /\ twin.b.tweens.autoSpin
  /\ twin.b.totalSpins < MaxSpins
  /\ twin' = autoSpin(twin.b, twin.rng)
  /\ UNCHANGED << math, rng, allowed, hooks, state, hookLog, balance, bet,
                  lastWin, freeSpins, totalSpins, prevGrid, heldReels, round,
                  tweens, ledger, request >>

\* the last spinning reel of the second session reports done
ReelsStopSecond ==
  /\ twin.b.round.pc = "spinning"
  /\ twin' = [twin EXCEPT !.b = Quiet(onAllComplete(twin.b))]
  /\ UNCHANGED << math, rng, allowed, hooks, state, hookLog, balance, bet,
                  lastWin, freeSpins, totalSpins, prevGrid, heldReels, round,
                  tweens, ledger, request >>

\* pirateFx.playHoldShoot of the second session resolves
HoldShootDoneSecond ==
  /\ twin.b.round.pc = "holdFx"
  /\ twin' = [twin EXCEPT !.b = Quiet(afterHoldShoot(twin.b))]
  /\ UNCHANGED << math, rng, allowed, hooks, state, hookLog, balance, bet,
                  lastWin, freeSpins, totalSpins, prevGrid, heldReels, round,
                  tweens, ledger, request >>

\* showBonusPopup of the second session resolves
BonusPopupDoneSecond ==
  /\ twin.b.round.pc = "bonusPopup"
  /\ twin' = [twin EXCEPT !.b = Quiet(afterBonusPopup(twin.b))]
  /\ UNCHANGED << math, rng, allowed, hooks, state, hookLog, balance, bet,
                  lastWin, freeSpins, totalSpins, prevGrid, heldReels, round,
                  tweens, ledger, request >>

\* presenter.present of the second session resolves
PresentDoneSecond ==
  /\ twin.b.round.pc = "present"
  /\ twin' = [twin EXCEPT !.b = Quiet(afterPresent(twin.b))]
  /\ UNCHANGED << math, rng, allowed, hooks, state, hookLog, balance, bet,
                  lastWin, freeSpins, totalSpins, prevGrid, heldReels, round,
                  tweens, ledger, request >>

\* the tween of delay(0.35) of the second session completes
DelayDoneSecond ==
  /\ twin.b.round.pc = "settle"
  /\ twin.b.tweens.delay
  /\ twin' = [twin EXCEPT !.b = Quiet(afterDelay(twin.b))]
  /\ UNCHANGED << math, rng, allowed, hooks, state, hookLog, balance, bet,
                  lastWin, freeSpins, totalSpins, prevGrid, heldReels, round,
                  tweens, ledger, request >>

NextTwin ==
  \/ PressFirst
  \/ AutoFirst
  \/ ReelsStop
  \/ HoldShootDone
  \/ BonusPopupDone
  \/ PresentDone
  \/ DelayDone
  \/ PressSecond
  \/ AutoSecond
  \/ ReelsStopSecond
  \/ HoldShootDoneSecond
  \/ BonusPopupDoneSecond
  \/ PresentDoneSecond
  \/ DelayDoneSecond

SpecTwin == InitTwin /\ [][NextTwin]_vars

\* ------------------------------------------------------------------------
\* generateSpin with its two while loops taken one test at a time: trigger
\* counts above the number of cells, zero and negative, the QA flags, and the
\* default count with even odds.
LoopMathChoices ==
  { [DefaultMath EXCEPT !.hitRate = <<1, 2>>, !.bonusTargetFrequency = <<1, 2>>],
    [DefaultMath EXCEPT !.bonusTriggerCount = 16, !.qaForceBonus = TRUE],
    [DefaultMath EXCEPT !.bonusTriggerCount = 0],
    [DefaultMath EXCEPT !.bonusTriggerCount = -1, !.qaForceSymbol = "SCATTER",
                        !.hitRate = <<1, 2>>],
    [DefaultMath EXCEPT !.bonusTriggerCount = 15, !.qaForceBonus = TRUE,
                        !.qaForceWin = TRUE] }

InitLoop ==
  /\ math \in LoopMathChoices
  /\ allowed = SlotAllowed
  /\ hooks = SlotHooks
  /\ state = "IDLE"
  /\ hookLog = << >>
  /\ balance = InitialBalance
  /\ bet = InitialBet
  /\ lastWin = 0 /\ freeSpins = 0 /\ totalSpins = 0
  /\ prevGrid = Null /\ heldReels = Null
  /\ round = NoRound
  /\ tweens = [autoSpin |-> FALSE, delay |-> FALSE]
  /\ ledger = NoLedger
  /\ request = NoRequest
  /\ rng \in TwinSeeds
  /\ twin = Null

\* generateSpin is called and runs up to its scatter pass
EnterScatterPass ==
  /\ request.op = "none"
  /\ request' = enterScatterPass(rng, math)
  /\ rng' = request'.rng
  /\ UNCHANGED << math, twin, allowed, hooks, state, hookLog, balance, bet, lastWin,
                  freeSpins, totalSpins, prevGrid, heldReels, round, tweens,
                  ledger >>

\* the loop condition of applyForcedScatter is tested
ForcedScatterTest ==
  /\ request.op = "scatterPass"
  /\ request.pc = "forced"
  /\ request' = forcedScatterTest(request, math, math.bonusTriggerCount)
  /\ rng' = request'.rng
  /\ UNCHANGED << math, twin, allowed, hooks, state, hookLog, balance, bet, lastWin,
                  freeSpins, totalSpins, prevGrid, heldReels, round, tweens,
                  ledger >>

\* the loop condition of limitScatterBelow is tested
LimitScatterTest ==
  /\ request.op = "scatterPass"
  /\ request.pc = "limit"
  /\ request' = limitScatterTest(request, math, math.bonusTriggerCount)
  /\ rng' = request'.rng
  /\ UNCHANGED << math, twin, allowed, hooks, state, hookLog, balance, bet, lastWin,
                  freeSpins, totalSpins, prevGrid, heldReels, round, tweens,
                  ledger >>

NextLoop ==
  \/ EnterScatterPass
  \/ ForcedScatterTest
  \/ LimitScatterTest

\* The call is synchronous code: once made it runs on.
SpecLoop == InitLoop /\ [][NextLoop]_vars /\ WF_vars(NextLoop)

\* ------------------------------------------------------------------------
\* The bet alone: enter() and the bet buttons under bet bounds and steps that
\* are not the default (BET_MIN, BET_MAX, BET_STEP set).  Every range holds
\* a multiple of its step.
BetMathChoices ==
  { [DefaultMath EXCEPT !.betMin = lo, !.betMax = hi, !.betStep = step]
    : lo \in {5, 10, 15}, hi \in {20, 25, 30, 40}, step \in {0, 1, 5, 10} }

InitClamp ==
  /\ math \in BetMathChoices
  /\ allowed = SlotAllowed
  /\ hooks = SlotHooks
  /\ state = "IDLE"
  /\ hookLog = << >>
  /\ balance = InitialBalance
  /\ bet = clampToStep(InitialBet, math.betMin, math.betMax, math.betStep)
  /\ lastWin = 0
  /\ freeSpins = 0
  /\ totalSpins = 0
  /\ prevGrid = Null
  /\ heldReels = Null
  /\ round = NoRound
  /\ tweens = [autoSpin |-> FALSE, delay |-> FALSE]
  /\ ledger = NoLedger
  /\ request = NoRequest
  /\ rng = 0
  /\ twin = Null

NextClamp == ChangeBet

SpecClamp == InitClamp /\ [][NextClamp]_vars

\* ------------------------------------------------------------------------
\* One reel of the machine through two spins: built with random symbols,
\* told to land on a column (or left frozen on the column it shows, which
\* is the column the composed grid has for a held reel), and moved by the
\* frames of the ticker, each carrying the tween any number of steps on.
ReelColumns ==
  { <<"WILD", "K", "Q">>, <<"A", "A", "A">>, <<"SCATTER", "Q", "J">> }

\* steps the eased position advances within one frame
FrameSteps == {1, 3, 8}

\* FitScaler 121-122: tweens.update(dt), then the scene's update(dt), which
\* reaches ReelView.update and its syncStrip.  shown is the visible column at
\* the time onComplete is called.
frame(V0, pos) ==
  Only({ [V0 EXCEPT !.reel = syncStrip(R),
                    !.shown = IF R.spinning THEN @ ELSE getVisibleColumn(R)]
       : R \in {tweenUpdate(V0.reel, pos)} })

\* SlotMachineView.spinTo 102-114 for reel V.index, the rng in state x
spinReel(V0, x, finalColumn, freeze) ==
  Only({
    IF freeze
      THEN [V EXCEPT !.final = finalColumn, !.frozen = TRUE, !.spins = @ + 1,
                     !.shown = getVisibleColumn(V.reel), !.rng = x]
      ELSE [V EXCEPT !.final = finalColumn, !.frozen = FALSE, !.spins = @ + 1,
                     !.shown = Null,
                     !.rng = RngSkip(x, BaseSteps + V.index * StepStagger + ReelBuffer),
                     !.reel = spin(prepareSpin(V.reel, x, finalColumn,
                                               BaseSteps + V.index * StepStagger))]
    : V \in {V0} })

InitReel ==
  /\ math = DefaultMath
  /\ allowed = SlotAllowed
  /\ hooks = SlotHooks
  /\ state = "IDLE"
  /\ hookLog = << >>
  /\ balance = InitialBalance
  /\ bet = InitialBet
  /\ lastWin = 0 /\ freeSpins = 0 /\ totalSpins = 0
  /\ prevGrid = Null /\ heldReels = Null
  /\ round = NoRound
  /\ tweens = [autoSpin |-> FALSE, delay |-> FALSE]
  /\ ledger = NoLedger
  /\ twin = Null
  /\ \E seed \in TwinSeeds, i \in 0..(Reels - 1) :
       /\ rng = RngSkip(seed, StripCells)
       /\ request = [ op |-> "reel", outcome |-> "none", forceFree |-> FALSE,
                      next |-> "IDLE", index |-> i, reel |-> newReel(seed),
                      final |-> Null, frozen |-> FALSE, spins |-> 0,
                      shown |-> Null, rng |-> RngSkip(seed, StripCells) ]

\* SlotMachineView.spinTo reaches the reel
SpinReel ==
  /\ ~request.reel.spinning
  /\ request.spins < MaxReelSpins
  /\ \E finalColumn \in ReelColumns, freeze \in BOOLEAN :
       /\ freeze => (request.spins > 0 /\ finalColumn = request.final)
       /\ request' = spinReel(request, rng, finalColumn, freeze)
  /\ rng' = request'.rng
  /\ UNCHANGED << math, twin, allowed, hooks, state, hookLog, balance, bet, lastWin,
                  freeSpins, totalSpins, prevGrid, heldReels, round, tweens,
                  ledger >>

\* a frame of the ticker while the reel spins
Frame ==
  /\ request.reel.spinning
  /\ \E d \in FrameSteps :
       request' = frame(request, Min(request.reel.target, request.reel.spinPos + d))
  /\ UNCHANGED << math, rng, twin, allowed, hooks, state, hookLog, balance, bet,
                  lastWin, freeSpins, totalSpins, prevGrid, heldReels, round,
                  tweens, ledger >>

NextReel ==
  \/ SpinReel
  \/ Frame

SpecReel == InitReel /\ [][NextReel]_vars

TypeOK ==
  /\ state \in SlotStates
  /\ round.pc \in {"idle", "spinning", "holdFx", "bonusPopup", "present", "settle"}
  /\ totalSpins \in 0..MaxSpins


\* ------------------------------------------------------------- properties
\* C1: whenever the machine is IDLE, balance = initial balance - the bets of
\* the accepted paid rounds + the winAmount of the completed rounds (+ the
\* credit top-ups, which are zero in a session without top-up); and from the
\* moment a round is accepted as a free spin the balance is never below the
\* balance at its acceptance.
C1_BalanceLedger ==
  /\ state = "IDLE" =>
       balance = InitialBalance - ledger.paidBets + ledger.wonTotal
                   + ledger.topUps
  /\ ledger.kind = "free" => balance >= ledger.balAtAccept

\* three rounds without top-up, the last one a free spin, a win among them
C1_Witness ==
  /\ state = "IDLE" /\ ledger.topUps = 0 /\ totalSpins = MaxSpins
  /\ ledger.kind = "free" /\ ledger.wonTotal > 0 /\ ledger.paidBets > 0

\* C2: from the acceptance of a round to the acceptance of the next one the
\* balance is the balance at acceptance, less the bet exactly when the round
\* is a paid one (nothing for a free spin or a forced respin), plus - once
\* the presentation is over - the winAmount the evaluator gives for the
\* round's grid, plus the credit top-ups made meanwhile.
C2_DebitCreditOnce ==
  ledger.kind # "none" =>
    balance =
      ledger.balAtAccept
        - (IF ledger.kind = "paid" THEN ledger.betAtAccept ELSE 0)
        + (IF round.pc \in {"settle", "idle"}
             THEN evaluateGrid(round.grid, ledger.betAtAccept, math,
                               round.inFreeSpins).winAmount
             ELSE 0)
        + (ledger.topUps - ledger.topUpsAtAccept)

\* a paid round whose win has been credited, after a forced respin
C2_Witness ==
  /\ ledger.kind = "paid" /\ round.pc = "settle" /\ ledger.respins > 0
  /\ round.evaluated.winAmount > 0
  /\ balance = ledger.balAtAccept - bet + round.evaluated.winAmount

\* the step is a call of requestSpin (from the HUD, forced, or the auto-spin
\* tween)
SpinRequested == request'.op \in {"spin", "autoSpin"}

\* C3: a call of requestSpin made while the machine is not IDLE is refused
\* and leaves balance, bet, free spins, total spins, last win, hold mask,
\* previous grid, state and the round in flight as they were; and after
\* every step at most one round is in flight.
C3_RefusedWhenBusy ==
  [][ /\ (state # "IDLE" /\ SpinRequested) =>
           /\ request'.outcome = "refused"
           /\ UNCHANGED << balance, bet, freeSpins, totalSpins, lastWin,
                           heldReels, prevGrid, state, round, hookLog >>
      /\ ledger'.inFlight <= 1 ]_vars

\* a request refused while the win presentation of the one round is running
C3_Witness ==
  /\ request.outcome = "refused" /\ round.pc = "present"
  /\ state = "WIN_PRESENTATION" /\ ledger.inFlight = 1

\* C4: a call of requestSpin in IDLE with no free spins, not forced, and
\* balance < bet is rejected: the state stays IDLE and balance, free-spin
\* counter, total-spin counter, last win, hold mask and previous grid keep
\* their values.
C4_RejectedWhenShort ==
  [][ (/\ state = "IDLE" /\ freeSpins = 0 /\ balance < bet
       /\ SpinRequested /\ ~request'.forceFree) =>
        /\ request'.outcome = "rejected"
        /\ state' = "IDLE"
        /\ UNCHANGED << balance, freeSpins, totalSpins, lastWin, heldReels,
                        prevGrid >> ]_vars

\* a rejected request, made while a hold mask with a held reel was pending
C4_Witness ==
  /\ request.outcome = "rejected" /\ ~request.forceFree
  /\ state = "IDLE" /\ freeSpins = 0 /\ balance < bet
  /\ \E r \in 1..Reels : IsHeld(heldReels, r)

\* the states entered since the current round was accepted, in order
Visited == [i \in 1..Len(hookLog) |-> hookLog[i][2]]

\* the path of a round whose free-spin award is a
RoundPath(a) ==
  IF a > 0 THEN << "SPINNING", "RESULT", "BONUS", "WIN_PRESENTATION", "IDLE" >>
  ELSE << "SPINNING", "RESULT", "WIN_PRESENTATION", "IDLE" >>

\* how many states of its path a round suspended at pc has entered
Entered(pc, a) ==
  CASE pc = "spinning"   -> 1
    [] pc = "holdFx"     -> 2
    [] pc = "bonusPopup" -> 3
    [] pc = "present"    -> Len(RoundPath(a)) - 1
    [] pc = "settle"     -> Len(RoundPath(a)) - 1
    [] pc = "idle"       -> Len(RoundPath(a))

\* C5: the states an accepted round has entered are, at each point of the
\* round, the leading part of SPINNING, RESULT, [BONUS], WIN_PRESENTATION,
\* IDLE that belongs to that point, with BONUS in the path exactly when the
\* round's free-spin award is > 0 and WIN_PRESENTATION in it whatever the win;
\* the round was accepted in IDLE and the machine is in the state entered
\* last.
C5_StateOrder ==
  ledger.kind # "none" =>
    /\ Visited = SubSeq(RoundPath(round.award), 1, Entered(round.pc, round.award))
    /\ state = Visited[Len(Visited)]
    /\ (round.pc \notin {"spinning"}) =>
         round.award = getBonusFreeSpinsAward(round.evaluated.scatterCount, math)
                         + round.retriggerAward

\* a finished bonus round with no win: five states entered, BONUS among them
C5_Witness ==
  /\ round.pc = "idle" /\ round.award > 0 /\ round.evaluated.winAmount = 0
  /\ round.evaluated.scatterCount = math.bonusTriggerCount /\ math.bonusEnabled
  /\ Visited = << "SPINNING", "RESULT", "BONUS", "WIN_PRESENTATION", "IDLE" >>

\* the whitelist of a state: its entry in the transition map, if any
Whitelist(allow, cur) == IF cur \in DOMAIN allow THEN allow[cur] ELSE {}

\* C6: a call set(next) changes the state if and only if next differs from
\* the current state and is in the current state's whitelist, and then the
\* new state is next; otherwise the state stays and no hook call is made;
\* can(next) is true exactly when next is the current state or whitelisted.
C6_SetSemantics ==
  [][ request'.op = "set" =>
        LET next   == request'.next
            listed == next \in Whitelist(allowed, state)
        IN /\ (state' # state) <=> (next # state /\ listed)
           /\ state' \in {state, next}
           /\ (state' = state) => hookLog' = hookLog
           /\ (request'.outcome = "can") <=> (next = state \/ listed) ]_vars

\* a request for a state that is not whitelisted was ignored, the machine
\* having moved (and called hooks) before
C6_Witness ==
  /\ request.op = "set" /\ request.outcome = "cannot"
  /\ request.next # state /\ request.next \notin Whitelist(allowed, state)
  /\ Len(hookLog) > 0

\* C7: a reel that was frozen during the previous spin is not frozen during
\* the current one (ledger.prevFreeze is the mask the previous spin was
\* composed with, round.freezeReels the mask of the current spin).
C7_NoSelfRenewal ==
  \A r \in 1..Reels :
    IsHeld(ledger.prevFreeze, r) => ~IsHeld(round.freezeReels, r)

\* spin N+1 is under way, reel r was frozen in spin N and its column still
\* showed a WILD when spin N stopped
C7_Witness ==
  /\ round.pc = "spinning" /\ totalSpins = MaxSpins
  /\ \E r \in 1..Reels :
       /\ IsHeld(ledger.prevFreeze, r)
       /\ \E row \in 1..Rows : ledger.lastGrid[r][row] = "WILD"
       /\ ~IsHeld(round.freezeReels, r)

\* C8: a grid spinGrid returned has, on every reel r, the column of the
\* previous grid when a previous grid and a mask were passed and the mask
\* holds r, and the generated column otherwise; without a previous grid or
\* without a mask it is the generated grid; with mask
\* [true,false,false,false,false] and previous reel 0 = [WILD,K,Q] its reel 0
\* is [WILD,K,Q].
C8_SpinGridColumns ==
  request.op = "compose" =>
    /\ Len(round.grid) = Reels
    /\ \A r \in 1..Reels :
         round.grid[r] =
           IF prevGrid # Null /\ heldReels # Null /\ heldReels[r]
             THEN prevGrid[r] ELSE ledger.gen[r]
    /\ (prevGrid = Null \/ heldReels = Null) => round.grid = ledger.gen
    /\ ( /\ prevGrid # Null
         /\ heldReels = << TRUE, FALSE, FALSE, FALSE, FALSE >>
         /\ prevGrid[1] = << "WILD", "K", "Q" >> )
       => round.grid[1] = << "WILD", "K", "Q" >>

\* the example: reel 0 held over a generated grid whose reel 0 differs
C8_Witness ==
  /\ request.op = "compose"
  /\ heldReels = << TRUE, FALSE, FALSE, FALSE, FALSE >>
  /\ prevGrid = GridWild /\ ledger.gen = GridDead
  /\ round.grid[1] = << "WILD", "K", "Q" >> /\ round.grid[2] = GridDead[2]

\* the round in flight (or last run) has passed its RESULT
PastResult == ledger.kind # "none" /\ round.pc # "spinning"

\* C9: the mask and the previous grid a round is composed with are the mask
\* computed at the RESULT of the round before (ledger.prevMask) and the grid
\* that round stopped on (ledger.lastGrid), whatever was requested and
\* rejected in between; and the mask a round leaves at its RESULT is built
\* from that round alone - a reel is in it exactly when the round was not
\* evaluated as a free spin, the reel was not frozen and its stopped column
\* shows a WILD - so no entry of the earlier mask is carried into it.
C9_MaskAndGridHandOver ==
  ledger.kind # "none" =>
    /\ round.freezeReels = ledger.prevMask
    /\ ledger.usedPrevGrid = ledger.lastGrid
    /\ round.grid = spinGrid(ledger.gen, ledger.lastGrid, ledger.prevMask)
    /\ PastResult =>
         heldReels =
           [r \in 1..Reels |->
              /\ ~round.inFreeSpins
              /\ ~IsHeld(ledger.prevMask, r)
              /\ \E y \in 1..Rows : round.grid[r][y] = "WILD"]
    /\ (~PastResult /\ totalSpins > 1) => heldReels = ledger.prevMask

\* round N+1 was accepted after a request had been rejected, it was composed
\* with a held reel, and its RESULT left a mask without that reel
C9_Witness ==
  /\ PastResult /\ ledger.rejectedBefore
  /\ \E r \in 1..Reels :
       /\ IsHeld(ledger.prevMask, r)
       /\ round.grid[r] = ledger.lastGrid[r] /\ round.grid[r] # ledger.gen[r]
       /\ ~IsHeld(heldReels, r)
       /\ \E q \in 1..Reels : IsHeld(heldReels, q)

\* C10: once a round accepted as a free spin has passed its RESULT, the hold
\* mask it leaves for the next spin has no held reel.
C10_FreeSpinLeavesNoHold ==
  (ledger.kind = "free" /\ PastResult) =>
    \A r \in 1..Reels : ~IsHeld(heldReels, r)

\* C11: while a round accepted as a free spin is in play no reel is frozen:
\* the mask the round was composed with has no held reel, also when the
\* round before it was the paid round that triggered the bonus.
C11_NoFreezeInFreeSpin ==
  ledger.kind = "free" => \A r \in 1..Reels : ~IsHeld(round.freezeReels, r)

\* the step enters machine state s (the hook log starts afresh when a spin
\* is accepted)
EntersIn(s) ==
  \E i \in 1..Len(hookLog') :
    /\ hookLog'[i][2] = s
    /\ (request'.outcome = "accepted" \/ i > Len(hookLog))

\* C12: every step that changes the balance is the bet debit of an accepted
\* paid spin or the win credit at the end of the presentation; every step
\* that changes the hold mask enters RESULT; every step that changes the
\* free-spin counter is the -1 of an accepted free spin or the +award of
\* BONUS.  No other step changes any of the three.
C12_ChangeOnlyAtSteps ==
  [][ /\ balance' # balance =>
           \/ /\ request'.outcome = "accepted" /\ ledger'.kind = "paid"
              /\ balance' = balance - bet
           \/ /\ round.pc = "present" /\ round'.pc = "settle"
              /\ balance' = balance + round.evaluated.winAmount
      /\ heldReels' # heldReels => EntersIn("RESULT")
      /\ freeSpins' # freeSpins =>
           \/ /\ request'.outcome = "accepted" /\ ledger'.kind = "free"
              /\ freeSpins' = freeSpins - 1
           \/ /\ state = "BONUS" /\ round.pc = "bonusPopup"
              /\ freeSpins' = freeSpins + round.award ]_vars

\* C13: whenever the machine is in SPINNING, RESULT, BONUS or
\* WIN_PRESENTATION it eventually is in IDLE with no round in flight, the
\* waits of the round being fair; and at every point of a paid round the
\* balance is what it was at acceptance less the bet, plus the top-ups made
\* since and, once the presentation is over, the round's win: the bet does
\* not come back.
C13_RoundTerminates ==
  /\ (state # "IDLE") ~> (state = "IDLE" /\ round.pc = "idle" /\ ledger.inFlight = 0)
  /\ [](ledger.kind = "paid" =>
          balance - (ledger.topUps - ledger.topUpsAtAccept)
            = ledger.balAtAccept - ledger.betAtAccept
                + (IF round.pc \in {"settle", "idle"}
                     THEN round.evaluated.winAmount ELSE 0))

\* a paid round that went through the hold FX, BONUS and a presented win is
\* back in IDLE
C13_Witness ==
  /\ state = "IDLE" /\ round.pc = "idle" /\ ledger.kind = "paid"
  /\ ledger.inFlight = 0
  /\ balance < ledger.balAtAccept + (ledger.topUps - ledger.topUpsAtAccept)
  /\ Visited = << "SPINNING", "RESULT", "BONUS", "WIN_PRESENTATION", "IDLE" >>

\* C14: whenever the machine is in IDLE with free spins left (and the session
\* may still spin) it eventually is in SPINNING, no spin request from the HUD
\* being needed for it; and a round that starts while the free-spin counter
\* is 0 starts by a spin request, never by the scheduled automatic spin.
C14_AutoContinue ==
  /\ (state = "IDLE" /\ freeSpins > 0 /\ totalSpins < MaxSpins)
       ~> (state = "SPINNING")
  /\ [][ (freeSpins = 0 /\ totalSpins' # totalSpins) =>
           (state = "IDLE" /\ request'.op = "spin") ]_vars

\* the scheduled automatic spin has started a free spin
C14_Witness ==
  /\ request.op = "autoSpin" /\ request.outcome = "accepted"
  /\ state = "SPINNING" /\ ledger.kind = "free"

\* C15: an accepted spin requested with forceFree = true leaves
\* the balance and the free-spin counter as they were, whatever the counter
\* is.
C15_ForcedKeepsBalanceAndPool ==
  [][ (request'.forceFree /\ request'.outcome = "accepted") =>
        (balance' = balance /\ freeSpins' = freeSpins) ]_vars

\* C16: once a round is past its RESULT its award is the trigger part
\* (freeSpinsAward when bonus is enabled and the scatter count reaches
\* bonusTriggerCount) plus the retrigger part (freeSpinsRetriggerAward when
\* the round is a free spin, retrigger is enabled and the scatter count
\* reaches freeSpinsRetriggerCount); the retrigger part is 0 for a round that
\* is not a free spin; and once BONUS is over the free-spin counter is what
\* it was at acceptance, less the 1 a free spin takes, plus this sum.
C16_AwardIsSum ==
  PastResult =>
    /\ round.award =
         (IF math.bonusEnabled
               /\ round.evaluated.scatterCount >= math.bonusTriggerCount
            THEN math.freeSpinsAward ELSE 0)
         + (IF /\ ledger.kind = "free"
               /\ math.freeSpinsRetriggerEnabled
               /\ round.evaluated.scatterCount >= math.freeSpinsRetriggerCount
              THEN math.freeSpinsRetriggerAward ELSE 0)
    /\ ledger.kind # "free" => round.retriggerAward = 0
    /\ round.pc \in {"present", "settle", "idle"} =>
         freeSpins = ledger.freeSpinsAtAccept
                       - (IF ledger.kind = "free" THEN 1 ELSE 0) + round.award

\* the cells of column r of the evaluated grid
ColumnCells(r) == { round.grid[r][y] : y \in 1..Rows }

\* C17: in the result of evaluateGrid heldReelsNext has one entry per reel
\* and entry r is true exactly when column r of the evaluated grid holds a
\* WILD, for every math, bet and inFreeSpins, whether or not lines win.
C17_HeldIffWildInColumn ==
  request.op = "evaluate" =>
    /\ DOMAIN round.evaluated.heldReelsNext = 1..Reels
    /\ \A r \in 1..Reels :
         round.evaluated.heldReelsNext[r] <=> "WILD" \in ColumnCells(r)

\* a call in free spins with a win line, a reel held for a WILD on its bottom
\* row only and a reel without WILD not held
C17_Witness ==
  /\ request.op = "evaluate" /\ round.inFreeSpins
  /\ round.evaluated.winLines # << >>
  /\ \E r, q \in 1..Reels :
       /\ round.grid[r][1] # "WILD" /\ round.grid[r][3] = "WILD"
       /\ round.evaluated.heldReelsNext[r]
       /\ ~round.evaluated.heldReelsNext[q]

\* the cells (reel, row; 0-based) of the evaluated grid that show the
\* configured scatter symbol
ScatterCells ==
  { c \in [reel : 0..Reels - 1, row : 0..Rows - 1] :
      round.grid[c.reel + 1][c.row + 1] = math.scatterSymbol }

\* C18: in the result of evaluateGrid scatterCount is the number of cells of
\* the grid equal to math.scatterSymbol, and scatterPositions lists each of
\* those cells once and no other cell, whether or not lines win.
C18_ScatterCount ==
  request.op = "evaluate" =>
    /\ round.evaluated.scatterCount = Cardinality(ScatterCells)
    /\ Len(round.evaluated.scatterPositions) = Cardinality(ScatterCells)
    /\ { round.evaluated.scatterPositions[i] :
           i \in 1..Len(round.evaluated.scatterPositions) } = ScatterCells

\* a call with A configured as the scatter symbol on a grid that shows A,
\* SCATTER and a win line
C18_Witness ==
  /\ request.op = "evaluate" /\ math.scatterSymbol = "A"
  /\ round.evaluated.scatterCount > 5
  /\ round.evaluated.winLines # << >>
  /\ \E r \in 1..Reels : round.grid[r][1] = "SCATTER"

\* the ids of the paylines with a win line in the result of evaluateGrid
WinLineIds ==
  { round.evaluated.winLines[i].lineId : i \in 1..Len(round.evaluated.winLines) }

\* the symbol of the evaluated grid on reel r (1-based) of payline li
LineCell(li, r) == round.grid[r][PAYLINES_5X3[li].rows[r] + 1]

\* C19: for every grid and every math spec, whatever its configured scatter
\* symbol, a payline whose cell on reel 0 shows math.scatterSymbol has no
\* win line in the result of evaluateGrid.
C19_ScatterLedLineNeverWins ==
  request.op = "evaluate" =>
    \A li \in 1..Len(PAYLINES_5X3) :
      LineCell(li, 1) = math.scatterSymbol =>
        PAYLINES_5X3[li].id \notin WinLineIds

\* the number of WILD cells payline li starts with
LeadWilds(li) ==
  Cardinality({ k \in 1..Reels : \A r \in 1..k : LineCell(li, r) = "WILD" })

\* the base symbol of payline li: its first cell, or for a line that starts
\* with WILD the first cell after the leading WILDs, unless there is none or
\* it is SCATTER
LineBase(li) ==
  IF LeadWilds(li) = Reels THEN "WILD"
  ELSE IF LineCell(li, LeadWilds(li) + 1) = "SCATTER" THEN "WILD"
  ELSE LineCell(li, LeadWilds(li) + 1)

\* the line is left before any cell is counted: it starts with SCATTER, or
\* only WILDs lead it and WILD does not pay itself
LineSkipped(li, base) ==
  \/ LineCell(li, 1) = "SCATTER"
  \/ LineCell(li, 1) = "WILD" /\ base = "WILD" /\ ~math.wildPaysItself

\* the cell on reel r counts for the line
CellMatches(li, base, r) ==
  /\ LineCell(li, r) # "SCATTER"
  /\ \/ LineCell(li, r) = base
     \/ math.wildSubstitutes /\ LineCell(li, r) = "WILD" /\ base # "WILD"

\* the match count of a payline: the cells counted from reel 0 up to the
\* first cell that does not count; 0 for a line that is skipped
CountFor(li, base) ==
  IF LineSkipped(li, base) THEN 0
  ELSE Cardinality({ k \in 1..Reels : \A r \in 1..k : CellMatches(li, base, r) })

MatchCount(li) == CountFor(li, LineBase(li))

\* bet * paytable[base][min(count, 5)], a missing entry counting as 0
PayFor(base, count) ==
  IF base \in DOMAIN math.paytable /\ Min(count, 5) \in DOMAIN math.paytable[base]
    THEN bet * math.paytable[base][Min(count, 5)]
    ELSE 0

\* the win lines recorded for payline li
WinLinesOf(li) ==
  { i \in 1..Len(round.evaluated.winLines) :
      round.evaluated.winLines[i].lineId = PAYLINES_5X3[li].id }

\* what C20 says of one payline, given its base, match count and product
LinePaysAs(won, base, count, pay) ==
  /\ (won # {}) <=> (count >= 3 /\ pay > 0)
  /\ Cardinality(won) <= 1
  /\ \A i \in won :
       /\ round.evaluated.winLines[i].amount = pay
       /\ round.evaluated.winLines[i].symbol = base
       /\ round.evaluated.winLines[i].count = Min(count, 5)

FirstPlain(li, k) ==
  /\ LineCell(li, k) \notin {"WILD", "SCATTER"}
  /\ \A r \in 1..(k - 1) : LineCell(li, r) = "WILD"

\* the base symbol the evaluator works out for payline li
CodeBase(li) == BaseSymbol(LineSymbols(round.grid, PAYLINES_5X3[li].rows))

\* C21: for a payline whose reel-0 cell is WILD the base symbol is the first
\* non-WILD symbol met rightwards before any SCATTER; when there is none the
\* base is WILD, and then the line has a win line only if wildPaysItself is
\* enabled (and has none when it is not); a win line of such a payline
\* records the base as its symbol.
C21_WildLedBase ==
  request.op = "evaluate" =>
    \A li \in 1..Len(PAYLINES_5X3) :
      LineCell(li, 1) = "WILD" =>
        /\ \A k \in 2..Reels : FirstPlain(li, k) => CodeBase(li) = LineCell(li, k)
        /\ (\A k \in 2..Reels : ~FirstPlain(li, k)) =>
             /\ CodeBase(li) = "WILD"
             /\ ~math.wildPaysItself => WinLinesOf(li) = {}
             /\ (WinLinesOf(li) # {}) => math.wildPaysItself
        /\ \A i \in WinLinesOf(li) :
             round.evaluated.winLines[i].symbol = CodeBase(li)

\* WILD paying itself: the top payline of five WILDs wins with base WILD,
\* and a payline WILD, WILD, A, WILD, WILD wins with base A
C21_Witness ==
  /\ request.op = "evaluate" /\ math.wildPaysItself
  /\ \A r \in 1..Reels : LineCell(2, r) = "WILD"
  /\ \E i \in WinLinesOf(2) : round.evaluated.winLines[i].symbol = "WILD"
  /\ LineCell(6, 3) = "A" /\ FirstPlain(6, 3)
  /\ \E i \in WinLinesOf(6) : round.evaluated.winLines[i].symbol = "A"

\* the run the evaluator's match loop gives for payline li
CodeRun(li) ==
  MatchRun(LineSymbols(round.grid, PAYLINES_5X3[li].rows),
           PAYLINES_5X3[li].rows, CodeBase(li), math, 1)

\* the cell on reel r (1-based) of payline li is no SCATTER and equals the
\* base or, the base not being WILD and wildSubstitutes enabled, is WILD
Counts(li, r) ==
  /\ LineCell(li, r) # "SCATTER"
  /\ \/ LineCell(li, r) = CodeBase(li)
     \/ CodeBase(li) # "WILD" /\ math.wildSubstitutes /\ LineCell(li, r) = "WILD"

\* n is the length of the longest prefix of payline li in which every cell
\* counts
LongestPrefix(li, n) ==
  /\ \A r \in 1..n : Counts(li, r)
  /\ n < Reels => ~Counts(li, n + 1)

\* what C22 says of the run of one payline
RunIsPrefix(li, run) ==
  /\ run.count \in 0..Reels
  /\ LongestPrefix(li, run.count)
  /\ run.positions =
       [r \in 1..run.count |-> [reel |-> r - 1, row |-> PAYLINES_5X3[li].rows[r]]]
  /\ run.usedWild <=> \E r \in 1..run.count : LineCell(li, r) = "WILD"

\* C22: the match count of a payline is the length of the longest prefix
\* from reel 0 in which every cell equals the base symbol or, the base not
\* being WILD and wildSubstitutes enabled, is WILD; a SCATTER or any other
\* symbol ends it; the positions are that prefix's cells along the payline;
\* usedWild is true exactly when a counted cell is WILD; and a win line
\* records this count, these positions and this usedWild.
C22_MatchPrefix ==
  request.op = "evaluate" =>
    \A li \in 1..Len(PAYLINES_5X3) :
      /\ RunIsPrefix(li, CodeRun(li))
      /\ \A i \in WinLinesOf(li) :
           /\ round.evaluated.winLines[i].count = CodeRun(li).count
           /\ round.evaluated.winLines[i].positions = CodeRun(li).positions
           /\ round.evaluated.winLines[i].usedWild = CodeRun(li).usedWild
           /\ round.evaluated.winLines[i].toReel = CodeRun(li).count - 1

\* the top payline K, WILD, K, then SCATTER: a run of three with a WILD
\* counted, ended by the SCATTER, recorded as a win line
C22_Witness ==
  /\ request.op = "evaluate"
  /\ LineCell(2, 1) = "K" /\ LineCell(2, 2) = "WILD" /\ LineCell(2, 3) = "K"
  /\ LineCell(2, 4) = "SCATTER" /\ LineCell(2, 5) = "K"
  /\ \E i \in WinLinesOf(2) :
       /\ round.evaluated.winLines[i].count = 3
       /\ round.evaluated.winLines[i].usedWild
       /\ Len(round.evaluated.winLines[i].positions) = 3


\* ---- C23 ----
\* the sum of the amounts of the win lines i..Len(lines)
RECURSIVE AmountsFrom(_, _)
AmountsFrom(lines, i) ==
  IF i > Len(lines) THEN 0 ELSE lines[i].amount + AmountsFrom(lines, i + 1)

\* the scatter win the statement gives: bet * scatterPay[min(count, 5)] when
\* scatter pays are on and at least 3 scatter cells show, 0 otherwise
ScatterPart(count) ==
  IF math.scatterPays /\ count >= 3
  THEN bet * math.scatterPay[IF count < 5 THEN count ELSE 5]
  ELSE 0

\* the multiplier of the call, as a fraction <<numerator, denominator>>
CallMult == IF round.inFreeSpins THEN math.freeSpinsWinMult ELSE <<1, 1>>

\* w is n/d rounded to the nearest integer, halves upwards
IsRounded(w, n, d) == 2 * d * w - d <= 2 * n /\ 2 * n < 2 * d * w + d

\* C23: the win amount of an evaluation is the single rounding of
\* (sum of the line amounts + scatter win) times the free-spin multiplier
\* (1 outside free spins), where the scatter win is bet * scatterPay[min(count, 5)]
\* when scatter pays are on and the scatter count is at least 3, and 0 otherwise.
C23_TotalWin ==
  request.op = "evaluate" =>
    /\ round.evaluated.scatterWinAmount = ScatterPart(round.evaluated.scatterCount)
    /\ IsRounded(round.evaluated.winAmount,
                 (AmountsFrom(round.evaluated.winLines, 1)
                    + ScatterPart(round.evaluated.scatterCount)) * CallMult[1],
                 CallMult[2])

\* a free-spin evaluation with several win lines and a scatter win whose
\* multiplied total is not an integer
C23_Witness ==
  /\ request.op = "evaluate"
  /\ round.inFreeSpins
  /\ math.freeSpinsWinMult = <<3, 2>>
  /\ Len(round.evaluated.winLines) >= 2
  /\ round.evaluated.scatterWinAmount > 0
  /\ ((AmountsFrom(round.evaluated.winLines, 1)
         + round.evaluated.scatterWinAmount) * 3) % 2 = 1

\* ---- C27 ----
\* the cells of a grid of Reels reels and Rows rows, 1-based
GridCells == (1..Reels) \X (1..Rows)

\* C27: when a QA force-symbol is configured, every cell of the grid that
\* generate returns is that symbol, whatever the forced-win and
\* forced-scatter decisions and the later passes do.
C27_ForcedSymbolEverywhere ==
  (request.op = "generate" /\ math.qaForceSymbol # "") =>
    \A c \in GridCells : request.gen.grid[c[1]][c[2]] = math.qaForceSymbol

\* ---- C28 ----
\* the k leftmost cells of row y (1-based) hold one symbol that is neither
\* WILD nor the scatter symbol
LineOf(grid, y, k) ==
  /\ grid[1][y] # "WILD" /\ grid[1][y] # math.scatterSymbol
  /\ \A r \in 1..k : grid[r][y] = grid[1][y]

\* C28: when generate reports forcedWin, the grid it returns has a row
\* whose 3, 4 or 5 leftmost cells hold one non-wild, non-scatter symbol: no
\* later pass alters the injected line.
C28_ForcedLineStays ==
  (request.op = "generate" /\ request.gen.forcedWin) =>
    \E y \in 1..Rows : LineOf(request.gen.grid, y, 3)

\* ---- C29 ----
\* C29: when forcedWin is false, no row of the returned grid has the same
\* non-scatter symbol on its three leftmost cells.
C29_NoAccidentalRun ==
  (request.op = "generate" /\ ~request.gen.forcedWin) =>
    \A y \in 1..Rows :
      ~ /\ request.gen.grid[1][y] # math.scatterSymbol
        /\ request.gen.grid[2][y] = request.gen.grid[1][y]
        /\ request.gen.grid[3][y] = request.gen.grid[1][y]

\* ---- C30 ----
\* the number of cells of the grid that hold the scatter symbol
ScatterIn(grid) ==
  Cardinality({ c \in GridCells : grid[c[1]][c[2]] = math.scatterSymbol })

\* every cell that differs between before and after held (wasScatter) or
\* did not hold the scatter symbol before, and the opposite after
OnlyTurns(before, after, wasScatter) ==
  \A c \in GridCells :
    after[c[1]][c[2]] # before[c[1]][c[2]] =>
      /\ (before[c[1]][c[2]] = math.scatterSymbol) = wasScatter
      /\ (after[c[1]][c[2]] = math.scatterSymbol) = ~wasScatter

\* C30: unless the scatter pass ran out of turns, the returned grid has at
\* least bonusTriggerCount scatter cells when forcedScatter and fewer when
\* not; the forced pass only turns non-scatter cells into scatter cells and
\* the limiting pass only turns scatter cells into non-scatter cells.
C30_ScatterCount ==
  request.op = "generate" =>
    /\ ~request.gen.exhausted =>
         (request.gen.forcedScatter
            <=> ScatterIn(request.gen.grid) >= math.bonusTriggerCount)
    /\ OnlyTurns(request.gen.lined, request.gen.grid, ~request.gen.forcedScatter)

\* a forced-scatter generation that had to place scatter cells and reached
\* the trigger count within its turns
C30_Witness ==
  /\ request.op = "generate"
  /\ request.gen.forcedScatter /\ ~request.gen.exhausted
  /\ ScatterIn(request.gen.lined) < math.bonusTriggerCount
  /\ ScatterIn(request.gen.grid) = math.bonusTriggerCount

\* ---- C26 ----
\* comparisons of two numbers of the resolver
AtMost(p, q) == p[1] * q[2] <= q[1] * p[2]

\* C26: whatever the environment holds (missing, malformed or negative
\* values included), the resolved MathSpec has every weight >= 0 and at
\* least one weight > 0, betMin <= betMax and betStep >= 1.
C26_ResolvedInvariant ==
  request.op = "resolve" =>
    /\ \A s \in DOMAIN math.weights : AtMost(Whole(0), math.weights[s])
    /\ \E s \in DOMAIN math.weights : ~AtMost(math.weights[s], Whole(0))
    /\ AtMost(math.betMin, math.betMax)
    /\ AtMost(Whole(1), math.betStep)
\* ------------------------------------------------------------------ C25
\* The second session's value of a field of the first.
Second == twin.b

\* Both sessions are in round n, the round still on the reels or settled.
SameRound == totalSpins = Second.totalSpins

\* Both sessions are in the same round and at the same wait of it.
SamePlace == SameRound /\ round.pc = Second.round.pc

\* C25: two sessions that start from the same rng state and play the same
\* sequence of spins show, round by round, the same generated grid, composed
\* grid, evaluated win, hold masks, balance and free-spin count, and leave
\* the rng in the same state, whatever the lengths of their waits and however
\* many presses made during a wait were turned down.
C25_SameStreamSameSession ==
  /\ SameRound => ledger.gen = Second.ledger.gen
  /\ SamePlace =>
       /\ round.grid = Second.round.grid
       /\ round.freezeReels = Second.round.freezeReels
       /\ round.evaluated = Second.round.evaluated
       /\ heldReels = Second.heldReels
       /\ prevGrid = Second.prevGrid
       /\ lastWin = Second.lastWin
       /\ balance = Second.balance
       /\ freeSpins = Second.freeSpins
       /\ rng = twin.rng

\* Witness: both sessions are settling their second round, a free spin that
\* won; the first has just had a press turned down during that wait, the
\* second has not been pressed.
C25_Witness ==
  /\ twin # Null
  /\ SamePlace
  /\ totalSpins = 2
  /\ round.pc = "settle"
  /\ ledger.kind = "free"
  /\ lastWin > 0
  /\ request.outcome = "refused"
  /\ Second.request.outcome = "none"

\* ------------------------------------------------------------------ C31
\* the weights of the first i declared symbols, added up
RECURSIVE WeightUpTo(_)
WeightUpTo(i) ==
  IF i = 0 THEN 0 ELSE WeightUpTo(i - 1) + math.weights[math.symbols[i]]

\* the declared positions at which roll minus the weights so far is <= 0,
\* for the roll u * totalWeight of the call made in rng state x
ReachedAt(x) ==
  { i \in 1..Len(math.symbols) :
      x * WeightUpTo(Len(math.symbols)) - RngModulus * WeightUpTo(i) <= 0 }

FirstOf(positions) == CHOOSE i \in positions : \A j \in positions : i <= j

\* C31: the symbol returned is the first in declared order at which the
\* running remainder (roll minus the weights so far) is <= 0, and the last
\* declared symbol when no symbol reaches it.
C31_RouletteOrder ==
  request.op = "pick" =>
    request.sym = IF ReachedAt(request.seed) # {}
                    THEN math.symbols[FirstOf(ReachedAt(request.seed))]
                    ELSE math.symbols[Len(math.symbols)]

\* ------------------------------------------------------------------ C39
\* C39: with a total weight > 0, a symbol whose weight is 0 is never
\* returned, whatever value of [0, 1) the rng gives.
C39_ZeroWeightNeverDrawn ==
  request.op = "pick" /\ WeightUpTo(Len(math.symbols)) > 0 =>
    math.weights[request.sym] # 0

\* ------------------------------------------------------------------ C32
\* generateSpin has returned.
Returned == request.op = "scatterPass" /\ request.pc = "done"

\* the scatter cells of the grid the scatter pass works on
ScatterNow == countScatter(request.grid, math.scatterSymbol)

\* C32: generateSpin returns for every state of the rng and every spec
\* (trigger counts above the number of cells, zero and negative included):
\* neither loop tests its condition more than its budget allows plus once,
\* c is the scatter count of the grid all along, and the grid returned is
\* the grid as the last turn left it (it is the grid of generateSpin taken
\* as one function, exhausted or not).
C32_GenerateReturns ==
  /\ [](request.op = "scatterPass" =>
          /\ request.guard <= LimitGuard + 1
          /\ request.pc = "forced" => request.guard <= ForcedGuard
          /\ request.c = ScatterNow)
  /\ [](Returned =>
          /\ request.grid = generateSpin(request.seed, math, Reels, Rows).grid
          /\ request.rng = generateSpin(request.seed, math, Reels, Rows).rng)
  /\ <>Returned

\* Witness: the forced loop has used up its 200 turns and returned with the
\* 15 cells it could fill, short of the 16 asked for.
C32_Witness ==
  /\ Returned
  /\ request.forcedScatter
  /\ request.guard = ForcedGuard + 1
  /\ math.bonusTriggerCount = 16
  /\ ScatterNow < math.bonusTriggerCount

\* ------------------------------------------------------------------ C33
\* reel r is frozen during the spin of the current round
FrozenNow(r) == ledger.kind # "none" /\ IsHeld(round.freezeReels, r)

\* C33: every reel frozen during a spin shows, in the composed grid, the
\* column it showed when the round before stopped, and that column holds a
\* WILD; and a hold mask is never composed with a null previous grid.
C33_FrozenColumnKept ==
  /\ \A r \in 1..Reels :
       FrozenNow(r) =>
         /\ ledger.lastGrid # Null
         /\ round.grid[r] = ledger.lastGrid[r]
         /\ \E y \in 1..Rows : round.grid[r][y] = "WILD"
  /\ (ledger.kind # "none" /\ round.freezeReels # Null) =>
       ledger.usedPrevGrid # Null

\* Witness: a reel is frozen on a column that differs from the one generated
\* for it, while another reel spins.
C33_Witness ==
  \E r, q \in 1..Reels :
    /\ FrozenNow(r)
    /\ round.grid[r] # ledger.gen[r]
    /\ ~IsHeld(round.freezeReels, q)
    /\ round.pc = "spinning"

\* ------------------------------------------------------------------ C34
\* C34: every round played as a free spin, the last of its sequence
\* included, is evaluated with inFreeSpins = true: its win carries
\* freeSpinsWinMult and its scatters can earn the retrigger award.
C34_FreeSpinEvaluatedAsFree ==
  (ledger.kind = "free" /\ PastResult) =>
    /\ round.inFreeSpins
    /\ round.retriggerAward =
         getRetriggerFreeSpinsAward(round.evaluated.scatterCount, math)

\* ------------------------------------------------------------------ C35
\* a round has just been accepted
Accepted == totalSpins' = totalSpins + 1

\* C35: the bet changes only in IDLE with no free spin left; so all through
\* a round (its evaluation at RESULT included) the bet is the bet the round
\* was accepted and debited at, and a round accepted as a free spin runs at
\* the bet of the round before it - by induction the bet of the round that
\* triggered the sequence.
C35_BetFixedThroughSequence ==
  [][ /\ bet' # bet => (state = "IDLE" /\ freeSpins = 0)
      /\ round'.pc # "idle" => bet' = ledger'.betAtAccept
      /\ (Accepted /\ ledger'.kind = "free") =>
           (ledger.kind # "none" /\ bet' = ledger.betAtAccept) ]_vars

\* Witness: a free spin is past its RESULT, evaluated at a bet that was
\* changed before the round that triggered it.
C35_Witness ==
  /\ ledger.kind = "free"
  /\ PastResult
  /\ round.evaluated.winAmount > 0
  /\ bet = ledger.betAtAccept
  /\ bet # clampToStep(InitialBet, math.betMin, math.betMax, math.betStep)

\* ------------------------------------------------------------------ C36
\* C36: at session start and after any sequence of bet changes the bet lies
\* within [betMin, betMax] and is a multiple of max(1, betStep), for every
\* MathSpec with betMin <= betMax.
C36_BetWithinBoundsOnStep ==
  math.betMin <= math.betMax =>
    /\ math.betMin <= bet
    /\ bet <= math.betMax
    /\ bet % Max(1, math.betStep) = 0

\* ------------------------------------------------------------------ C37
\* the automatic spin is scheduled and has not fired
AutoPending == tweens.autoSpin

\* C37: the automatic spin is pending only in IDLE, between two free spins;
\* a manual request made then starts exactly one round, takes exactly one
\* free spin and cancels the pending automatic request, and the automatic
\* request, when it fires first, does the same; so the two never start two
\* rounds.
C37_ManualCancelsAutoSpin ==
  /\ [](AutoPending => (state = "IDLE" /\ round.pc = "idle" /\ freeSpins > 0))
  /\ [][ (AutoPending /\ request'.op \in {"spin", "autoSpin"}) =>
           /\ request'.outcome = "accepted"
           /\ ledger'.kind = "free"
           /\ totalSpins' = totalSpins + 1
           /\ freeSpins' = freeSpins - 1
           /\ ~tweens'.autoSpin ]_vars

\* Witness: a manual request has just been accepted as a free spin (the
\* automatic spin was pending, as it is at every IDLE with free spins left)
\* and the automatic spin is no longer scheduled.
C37_Witness ==
  /\ request.op = "spin"
  /\ request.outcome = "accepted"
  /\ ledger.kind = "free"
  /\ freeSpins = ledger.freeSpinsAtAccept - 1
  /\ ~tweens.autoSpin
  /\ round.pc = "spinning"

\* ------------------------------------------------------------------ C38
\* C38: the balance and the free-spin counter are never negative, and the
\* acceptance of a round played as a free spin lowers the counter by exactly
\* one and leaves the balance alone.
C38_NeverNegative ==
  /\ [](balance >= 0 /\ freeSpins >= 0)
  /\ [][ (Accepted /\ ledger'.kind = "free") =>
           /\ freeSpins > 0
           /\ freeSpins' = freeSpins - 1
           /\ balance' = balance ]_vars

\* Witness: a free spin is on the reels with a balance that would not cover
\* the bet, one free spin gone from the pool.
C38_Witness ==
  /\ ledger.kind = "free"
  /\ round.pc = "spinning"
  /\ 0 <= balance /\ balance < bet
  /\ freeSpins = ledger.freeSpinsAtAccept - 1
  /\ freeSpins >= 0

\* ------------------------------------------------------------------ C40
\* the reel has been through a spinTo and is at rest
ReelAtRest == request.op = "reel" /\ request.spins > 0 /\ ~request.reel.spinning

\* C40: when a reel's spin completes, every queued step has been consumed and
\* its visible rows, top to bottom, are the final column given to
\* prepareSpin, already when onComplete is called; a frozen reel keeps
\* showing its column; so the column displayed at RESULT is the column of
\* the grid that is evaluated.
C40_ShownIsFinal ==
  ReelAtRest =>
    /\ request.shown = request.final
    /\ getVisibleColumn(request.reel) = request.final
    /\ request.reel.queueRead = Len(request.reel.queue)
    /\ request.reel.spinPos = request.reel.target

\* Witness: the reel has completed its second spin, on a column other than
\* the one it showed before, after a first spin that took it off position 0.
C40_Witness ==
  /\ ReelAtRest
  /\ request.spins = 2
  /\ ~request.frozen
  /\ request.reel.spinPos > Len(request.reel.queue)
  /\ request.reel.topIndex # 0
  /\ getVisibleColumn(request.reel) = <<"SCATTER", "Q", "J">>

=============================================================================
